---------------------------- MODULE Spec2Model ----------------------------
(***************************************************************************)
(* A model of MediaRenamer: the filename sanitizer, the rule scorer, the   *)
(* output generator of a rule, the batch rename loops and the audit-log    *)
(* restore.                                                                *)
(*                                                                         *)
(* A Python str is a sequence of one-character strings; None is the model  *)
(* value None; a dict is a function from its keys.                         *)
(***************************************************************************)
EXTENDS Integers, Sequences, FiniteSets, TLC

VARIABLES
    filename,       \* clean_filename: the name handed to the sanitizer
    cleaned,        \* clean_filename(filename)
    recleaned,      \* clean_filename(cleaned)
    cpc,            \* position of the sanitizer run: "init", "cleaned", "recleaned"
    rules,          \* RuleMatcher: the rule list handed to the matcher
    found,          \* found[i]: what rules[i].compiled_pattern.search(name) gives:
                    \*   None, or the tuple of its capture groups
    features,       \* analyze_filename(name): feature name -> BOOLEAN
    best,           \* the result of find_best_rule, NotRun before the call
    suggestions,    \* the result of get_rule_suggestions, NotRun before the call
    topN,           \* the top_n get_rule_suggestions was called with, 0 before
    mpc,            \* position of the matcher: "ready", "found", "suggested"
    genCall,        \* generate_output: the rule, its configuration and the arguments
    genOut,         \* what generate_output returned or raised, NotRun before
    gpc,            \* position of the generator: "ready", "done"
    directory,      \* the files of the directory: file name -> the file's identity
    locked,         \* the names whose file another process holds: open() is refused
    rename_log,     \* the records of the rename log of the directory, oldest first
    rnCall,         \* rename_file: its arguments and the directory it found
    rnOut,          \* the pair (ok, reason) rename_file returned, NotRun before;
                    \*   in a batch: << >> when the round did not call it
    rpc,            \* position of the rename_file call: "ready", "done"
    batchCall,      \* execute_rename: which of the two it is, and its arguments
    bi,             \* the number of files of the batch handled so far
    success_count,  \* execute_rename's success_count
    error_count,    \* execute_rename's error_count
    detailed_results, \* execute_rename's detailed_results
    preview_results, \* what FileProcessingLogic.preview_rename gave before the batch
    bpc,            \* position of the batch: "ready", "loop", "done", "raised"
    ri,             \* restore_all_from_log: the number of log records handled
    restored,       \* restore_all_from_log's success_count
    not_restored,   \* restore_all_from_log's error_count
    restore_results, \* restore_all_from_log's detailed_results
    found_directory, \* the files of the directory when restore_all_from_log began
    rspc            \* position of the restore: "ready", "loop", "done"

cleanVars == <<filename, cleaned, recleaned, cpc>>
matchVars == <<rules, found, features, best, suggestions, topN, mpc>>

genVars == <<genCall, genOut, gpc>>

fileVars == <<directory, locked, rename_log>>
renameVars == <<rnCall, rnOut, rpc>>
batchVars == <<batchCall, bi, success_count, error_count, detailed_results, preview_results, bpc>>
restoreVars == <<ri, restored, not_restored, restore_results, found_directory, rspc>>

vars == <<cleanVars, matchVars, genVars, fileVars, renameVars, batchVars, restoreVars>>

\* what the steps of one component leave alone
notClean == <<matchVars, genVars, fileVars, renameVars, batchVars, restoreVars>>
notMatch == <<cleanVars, genVars, fileVars, renameVars, batchVars, restoreVars>>
notGen == <<cleanVars, matchVars, fileVars, renameVars, batchVars, restoreVars>>
notRename == <<cleanVars, matchVars, genVars, batchVars, restoreVars>>
notBatch == <<cleanVars, matchVars, genVars, rnCall, rpc, restoreVars>>
notRestore == <<cleanVars, matchVars, genVars, renameVars, batchVars>>

None == <<"None">>
NotRun == <<"NotRun">>

(***************************************************************************)
(* Bounds of the model.                                                    *)
(***************************************************************************)
\* an input of the sanitizer is a concatenation of at most MaxPieces pieces
MaxPieces == 3
\* the matcher gets at most MaxRules rules
MaxRules == 2
\* get_rule_suggestions is asked for at most MaxTopN suggestions
MaxTopN == 2

(***************************************************************************)
(* Helpers on sequences and characters (Python built-ins).                 *)
(***************************************************************************)
SetMax(S) == CHOOSE x \in S : \A y \in S : y <= x
SetMin(S) == CHOOSE x \in S : \A y \in S : x <= y
IntMin(a, b) == IF a <= b THEN a ELSE b
IntMax(a, b) == IF a >= b THEN a ELSE b

\* The sequence of n copies of c.
Run(c, n) == [i \in 1..n |-> c]

RECURSIVE Flatten(_)
Flatten(ss) == IF ss = <<>> THEN <<>> ELSE Head(ss) \o Flatten(Tail(ss))

\* str.replace(c, r) for a one-character r.
ReplaceChar(s, c, r) == [i \in 1..Len(s) |-> IF s[i] = c THEN r ELSE s[i]]

\* str.replace(c, '').
RemoveChar(s, c) == SelectSeq(s, LAMBDA x : x # c)

\* s[:n] of Python: a negative n counts from the end.
SliceTo(s, n) ==
    IF n >= 0 THEN SubSeq(s, 1, IntMin(n, Len(s)))
    ELSE SubSeq(s, 1, IntMax(0, Len(s) + n))

\* The first index >= i of s whose character is not in cs (Len(s)+1: none).
RECURSIVE SkipLeft(_, _, _)
SkipLeft(s, cs, i) ==
    IF i > Len(s) \/ s[i] \notin cs THEN i ELSE SkipLeft(s, cs, i + 1)

\* The last index <= i of s whose character is not in cs (0: none).
RECURSIVE SkipRight(_, _, _)
SkipRight(s, cs, i) ==
    IF i < 1 \/ s[i] \notin cs THEN i ELSE SkipRight(s, cs, i - 1)

\* str.strip(chars).
StripChars(s, cs) == SubSeq(s, SkipLeft(s, cs, 1), SkipRight(s, cs, Len(s)))

LowerLetters == <<"a","b","c","d","e","f","g","h","i","j","k","l","m",
                  "n","o","p","q","r","s","t","u","v","w","x","y","z">>
UpperLetters == <<"A","B","C","D","E","F","G","H","I","J","K","L","M",
                  "N","O","P","Q","R","S","T","U","V","W","X","Y","Z">>
Digits == {"0","1","2","3","4","5","6","7","8","9"}

UpperOf == [c \in {LowerLetters[k] : k \in 1..26} |->
                UpperLetters[CHOOSE k \in 1..26 : LowerLetters[k] = c]]

\* str.upper() on one character.
UpperChar(c) == IF c \in DOMAIN UpperOf THEN UpperOf[c] ELSE c

\* str.upper().
Upper(s) == [i \in 1..Len(s) |-> UpperChar(s[i])]

\* str.rfind(c), 1-based; 0 when c does not occur.
RFind(s, c) ==
    LET idx == {i \in 1..Len(s) : s[i] = c}
    IN  IF idx = {} THEN 0 ELSE SetMax(idx)

\* pathlib's PurePath.suffix of a single-component name: the text from the
\* last dot on, unless that dot is the first or the last character.
PathSuffix(name) ==
    LET i == RFind(name, ".")
    IN  IF 1 < i /\ i < Len(name) THEN SubSeq(name, i, Len(name)) ELSE <<>>

\* pathlib's PurePath.stem.
PathStem(name) ==
    LET i == RFind(name, ".")
    IN  IF 1 < i /\ i < Len(name) THEN SubSeq(name, 1, i - 1) ELSE name

(***************************************************************************)
(* MediaRenamer.clean_filename                                             *)
(***************************************************************************)
\* illegal_chars = '<>:"/\\|?*', in the order the loop visits them
IllegalChars == <<"<", ">", ":", "\"", "/", "\\", "|", "?", "*">>
IllegalCharSet == {IllegalChars[k] : k \in 1..Len(IllegalChars)}

\* the characters \s matches among those of the model
Whitespace == {" ", "\t"}

\* the length limit of a cleaned name
MaxNameLen == 200

ReservedNames ==
    { <<"C","O","N">>, <<"P","R","N">>, <<"A","U","X">>, <<"N","U","L">> }
    \cup { <<"C","O","M",d>> : d \in Digits \ {"0"} }
    \cup { <<"L","P","T",d>> : d \in Digits \ {"0"} }

\* SubstituteOne without the branch for '"' (a mutant of it).
SubstituteOne_KeepQuote(s, c) ==
    IF c \in {":", "/", "\\"} THEN ReplaceChar(s, c, "-")
    ELSE IF c \in {"<", ">", "|", "?", "*"} THEN RemoveChar(s, c)
    ELSE s

\* One turn of the loop over illegal_chars: ':', '/', '\' become '-',
\* '<', '>', '|', '?', '*' are removed, '"' becomes "'".
SubstituteOne(s, c) ==
    IF c \in {":", "/", "\\"} THEN ReplaceChar(s, c, "-")
    ELSE IF c \in {"<", ">", "|", "?", "*"} THEN RemoveChar(s, c)
    ELSE IF c = "\"" THEN ReplaceChar(s, c, "'")
    ELSE s

RECURSIVE SubstituteIllegal(_, _)
SubstituteIllegal(s, k) ==
    IF k > Len(IllegalChars) THEN s
    ELSE SubstituteIllegal(SubstituteOne(s, IllegalChars[k]), k + 1)

\* re.sub(r'\s+', ' ', s): every run of whitespace becomes one space.
CollapseWhitespace(s) ==
    LET m == [i \in 1..Len(s) |->
                IF s[i] \in Whitespace
                THEN (IF i > 1 /\ s[i-1] \in Whitespace THEN "" ELSE " ")
                ELSE s[i]]
    IN  SelectSeq(m, LAMBDA x : x # "")

\* re.sub(r'c+', 'c', s) for a character c.
CollapseChar(s, c) ==
    LET m == [i \in 1..Len(s) |->
                IF s[i] = c /\ i > 1 /\ s[i-1] = c THEN "" ELSE s[i]]
    IN  SelectSeq(m, LAMBDA x : x # "")

\* The reserved-name step: a name whose upper-cased stem is reserved gets '_'.
PrefixReserved(s) ==
    IF Upper(PathStem(s)) \in ReservedNames THEN <<"_">> \o s ELSE s

\* The length step: keep the suffix, cut the stem to 200 - len(suffix).
Truncate(s) ==
    IF Len(s) > MaxNameLen
    THEN SliceTo(PathStem(s), MaxNameLen - Len(PathSuffix(s))) \o PathSuffix(s)
    ELSE s

\* The steps of clean_filename before the length limit.
Legalized(name) ==
    LET substituted == SubstituteIllegal(name, 1)
        collapsed   == CollapseChar(CollapseChar(
                           CollapseWhitespace(substituted), "."), "-")
        stripped    == StripChars(collapsed, {" ", ".", "-"})
        nonempty    == IF stripped = <<>>
                       THEN <<"u","n","n","a","m","e","d">> ELSE stripped
    IN  PrefixReserved(nonempty)

clean_filename(name) ==
    IF name = <<>> THEN name ELSE Truncate(Legalized(name))

(***************************************************************************)
(* The sanitizer's inputs: every concatenation of at most MaxPieces pieces.*)
(***************************************************************************)
Pieces ==
    { <<c>> : c \in IllegalCharSet }
    \cup { <<" ">>, <<"\t">>, <<".">>, <<"-">>, <<"a">>, <<"_">> }
    \cup { <<"C","O","N">>, <<"n","u","l">>, <<"C","O","M","1">>, <<"l","p","t","9">> }
    \cup { Run("a", MaxNameLen - 1), Run("a", MaxNameLen + 1) }

CleanInputs ==
    { Flatten(p) : p \in UNION { [1..n -> Pieces] : n \in 0..MaxPieces } }

\* The sanitizer at rest (the specifications of the other components).
CleanIdle ==
    /\ filename = <<>>
    /\ cleaned = <<>>
    /\ recleaned = <<>>
    /\ cpc = "idle"

\* The matcher at rest.
MatchIdle ==
    /\ rules = <<>>
    /\ found = <<>>
    /\ features = <<>>
    /\ best = NotRun
    /\ suggestions = NotRun
    /\ topN = 0
    /\ mpc = "idle"

\* The generator at rest.
GenIdle ==
    /\ genCall = <<>>
    /\ genOut = NotRun
    /\ gpc = "idle"

\* No directory at hand, and the file operations at rest.
FilesIdle ==
    /\ directory = <<>>
    /\ locked = {}
    /\ rename_log = <<>>

RenameIdle ==
    /\ rnCall = <<>>
    /\ rnOut = NotRun
    /\ rpc = "idle"

BatchIdle ==
    /\ batchCall = <<>>
    /\ bi = 0
    /\ success_count = 0
    /\ error_count = 0
    /\ detailed_results = <<>>
    /\ preview_results = [state |-> "not run"]
    /\ bpc = "idle"

RestoreIdle ==
    /\ ri = 0
    /\ restored = 0
    /\ not_restored = 0
    /\ restore_results = <<>>
    /\ found_directory = <<>>
    /\ rspc = "idle"

NoFileWork == FilesIdle /\ RenameIdle /\ BatchIdle /\ RestoreIdle

InitClean ==
    /\ filename \in CleanInputs
    /\ cleaned = <<>>
    /\ recleaned = <<>>
    /\ cpc = "init"
    /\ MatchIdle /\ GenIdle /\ NoFileWork

\* new_filename = self.clean_filename(new_filename)
Clean ==
    /\ cpc = "init"
    /\ cleaned' = clean_filename(filename)
    /\ cpc' = "cleaned"
    /\ UNCHANGED <<filename, recleaned>>
    /\ UNCHANGED notClean

\* the sanitizer applied to its own output
Reclean ==
    /\ cpc = "cleaned"
    /\ recleaned' = clean_filename(cleaned)
    /\ cpc' = "recleaned"
    /\ UNCHANGED <<filename, cleaned>>
    /\ UNCHANGED notClean

NextClean == Clean \/ Reclean

SpecClean == InitClean /\ [][NextClean]_vars

(***************************************************************************)
(* Claims about the sanitizer.                                             *)
(***************************************************************************)
HasIllegal(s) == \E i \in 1..Len(s) : s[i] \in IllegalCharSet

\* C1: re-applying clean_filename to its own output changes nothing.
C1_Idempotent == cpc = "recleaned" => recleaned = cleaned

OnlyRemoved(s) ==
    \A k \in 1..Len(s) :
        s[k] \in Whitespace \cup { ".", "-", ":", "/", "\\", "<", ">", "|", "?", "*" }

\* C15: clean_filename never returns an empty name: an input that is empty
\* or made only of removed and trimmed characters gives "unnamed".
C15_NeverEmpty ==
    cpc # "init" =>
        /\ cleaned # <<>>
        /\ OnlyRemoved(filename) => cleaned = <<"u","n","n","a","m","e","d">>

\* C16: the output of clean_filename has at most MaxNameLen characters; a
\* longer cleaned name loses characters of its stem only, and ends with its
\* whole extension.
C16_LengthLimit ==
    cpc # "init" =>
        /\ Len(cleaned) <= MaxNameLen
        /\ Len(Legalized(filename)) > MaxNameLen =>
              /\ Len(cleaned) >= Len(PathSuffix(Legalized(filename)))
              /\ SubSeq(cleaned, Len(cleaned) - Len(PathSuffix(Legalized(filename))) + 1,
                        Len(cleaned)) = PathSuffix(Legalized(filename))
              /\ SubSeq(cleaned, 1, Len(cleaned) - Len(PathSuffix(Legalized(filename))))
                    = SubSeq(PathStem(Legalized(filename)), 1,
                             Len(cleaned) - Len(PathSuffix(Legalized(filename))))

(***************************************************************************)
(* RegexRule.match and RuleMatcher                                         *)
(*                                                                         *)
(* A rule name is a sequence of name parts; the names of the weight table  *)
(* are written in ASCII:                                                   *)
(*   RanmaSpecial 乱马1/2专用格式      RanmaExtra 乱马1/2特殊格式          *)
(*   CasoSpecial CASO特殊格式           CasoPlain CASO普通格式              *)
(*   CasoFull CASO完整格式              EvaSpecial Evangelion特殊格式       *)
(*   EvaRange Evangelion范围格式        GenericBracket 通用方括号格式       *)
(*   GenericDot 通用点分隔格式          GenericDash 通用横线分隔格式        *)
(*   GenericUnderscore 通用下划线分隔格式   HysubOad HYSUB_OAD格式          *)
(*   HysubPlain HYSUB普通格式           Yydm11Fans YYDM-11FANS格式          *)
(*   YiyuSub 异域字幕组格式             DmgSub DMG字幕组格式                *)
(*   BebopSmart Cowboy Bebop智能格式    GenericSub 通用字幕组格式           *)
(*   SeasonEpisode 带季数剧集格式       JpEpisode 日式剧集格式              *)
(*   JpOped 日式OPED格式                JpOva 日式OVA格式                   *)
(*   JpMenu 日式菜单格式                StandardEpisode 标准剧集格式        *)
(*   Movie 电影格式                     Documentary 纪录片格式              *)
(*   CatchAll 综合通用格式              SimpleNumber 简单数字格式           *)
(*   <<SimpleNumber, -KeepTech>> 简单数字格式-保留技术信息                  *)
(***************************************************************************)
\* self.rule_weights
rule_weights ==
    ( <<"RanmaSpecial">> :> 25 ) @@ ( <<"RanmaExtra">> :> 24 ) @@
    ( <<"CasoSpecial">> :> 12 ) @@ ( <<"CasoPlain">> :> 12 ) @@
    ( <<"CasoFull">> :> 16 ) @@ ( <<"EvaSpecial">> :> 22 ) @@
    ( <<"EvaRange">> :> 21 ) @@ ( <<"GenericBracket">> :> 18 ) @@
    ( <<"GenericDot">> :> 19 ) @@ ( <<"GenericDash">> :> 20 ) @@
    ( <<"GenericUnderscore">> :> 21 ) @@ ( <<"HysubOad">> :> 12 ) @@
    ( <<"HysubPlain">> :> 12 ) @@ ( <<"Yydm11Fans">> :> 12 ) @@
    ( <<"YiyuSub">> :> 12 ) @@ ( <<"DmgSub">> :> 12 ) @@
    ( <<"BebopSmart">> :> 15 ) @@ ( <<"GenericSub">> :> 14 ) @@
    ( <<"SeasonEpisode">> :> 10 ) @@ ( <<"JpEpisode">> :> 9 ) @@
    ( <<"JpOped">> :> 8 ) @@ ( <<"JpOva">> :> 8 ) @@
    ( <<"JpMenu">> :> 7 ) @@ ( <<"StandardEpisode">> :> 8 ) @@
    ( <<"Movie">> :> 7 ) @@ ( <<"Documentary">> :> 6 ) @@
    ( <<"CatchAll">> :> 1 ) @@
    ( <<"SimpleNumber", "-KeepTech">> :> 5 ) @@ ( <<"SimpleNumber">> :> 3 )

\* self.feature_patterns.keys()
FeatureNames == {"season_episode", "episode_only", "year", "quality",
                 "series_name", "japanese_format"}

\* A score is held in units of 1/ScoreScale: the completeness bonus
\* matched / total * 10 is exact for every total that divides 10 * ScoreScale.
ScoreScale == 3 * 4 * 5 * 7

\* 'part' in rule.name
NameHas(name, part) == \E k \in 1..Len(name) : name[k] = part

\* RegexRule.match, given what compiled_pattern.search returned.
Match(rule, m) ==
    IF m = None THEN None
    ELSE [g \in DOMAIN rule.groups |->
            IF rule.groups[g] <= Len(m) THEN m[rule.groups[g]] ELSE <<>>]

\* not match_result: None, or a dict without keys
Falsy(result) == result = None \/ DOMAIN result = {}

\* v and v.strip(): a captured text with a character that is not whitespace
NonBlank(v) == v # None /\ \E k \in 1..Len(v) : v[k] \notin Whitespace

\* The bonus of the rule's family, from the features of the file name.
FamilyBonus(name, f) ==
    IF NameHas(name, "SeasonEpisode")
        THEN (IF f["season_episode"] THEN 20
              ELSE IF f["episode_only"] THEN 10 ELSE 0)
    ELSE IF NameHas(name, "JpEpisode")
        THEN (IF f["japanese_format"] THEN 25 ELSE 0)
             + (IF f["episode_only"] THEN 15 ELSE 0)
    ELSE IF NameHas(name, "JpOped")
        THEN (IF f["japanese_format"] THEN 20 ELSE 0)
    ELSE IF NameHas(name, "JpOva")
        THEN (IF f["japanese_format"] THEN 20 ELSE 0)
    ELSE IF NameHas(name, "JpMenu")
        THEN (IF f["japanese_format"] THEN 15 ELSE 0)
    ELSE IF NameHas(name, "StandardEpisode")
        THEN (IF f["episode_only"] THEN 15 ELSE 0)
             + (IF f["series_name"] THEN 10 ELSE 0)
    ELSE IF NameHas(name, "Movie")
        THEN (IF f["year"] THEN 15 ELSE 0)
             + (IF f["quality"] THEN 10 ELSE 0)
    ELSE IF NameHas(name, "Documentary")
        THEN (IF f["episode_only"] THEN 15 ELSE 0)
    ELSE IF NameHas(name, "SimpleNumber") THEN 5
    ELSE 0

\* calculate_rule_score without the return of 0.0 for a rule that did not
\* match (a mutant of it).
calculate_rule_score_NoFloor(rule, m, f) ==
    LET base_score == IF rule.name \in DOMAIN rule_weights
                      THEN rule_weights[rule.name] ELSE 5
    IN  IntMin(base_score * ScoreScale, 100 * ScoreScale)

\* calculate_rule_score with the completeness bonus taken in percent and
\* without the final min.
calculate_rule_score_PercentNoClamp(rule, m, f) ==
    LET base_score   == IF rule.name \in DOMAIN rule_weights
                        THEN rule_weights[rule.name] ELSE 5
        match_result == Match(rule, m)
    IN  IF Falsy(match_result) THEN 0
        ELSE (base_score + FamilyBonus(rule.name, f)) * ScoreScale
             + (IF DOMAIN rule.groups # {}
                THEN (Cardinality({g \in DOMAIN match_result : NonBlank(match_result[g])})
                         * 100 * ScoreScale) \div Cardinality(DOMAIN rule.groups)
                ELSE 0)

\* RuleMatcher.calculate_rule_score, in units of 1/ScoreScale; m is what the
\* rule's pattern finds in the file name and f the features of the name.
calculate_rule_score(rule, m, f) ==
    LET base_score   == IF rule.name \in DOMAIN rule_weights
                        THEN rule_weights[rule.name] ELSE 5
        match_result == Match(rule, m)
    IN  IF Falsy(match_result) THEN 0
        ELSE LET matched_groups == Cardinality({g \in DOMAIN match_result :
                                                  NonBlank(match_result[g])})
                 total_groups   == Cardinality(DOMAIN rule.groups)
                 bonus          == IF total_groups > 0
                                   THEN (matched_groups * 10 * ScoreScale)
                                            \div total_groups
                                   ELSE 0
                 score          == (base_score + FamilyBonus(rule.name, f))
                                       * ScoreScale + bonus
             IN  IntMin(score, 100 * ScoreScale)

\* rule.match(filename) or {}
MatchOrEmpty(rule, m) ==
    IF Falsy(Match(rule, m)) THEN <<>> ELSE Match(rule, m)

\* The loop body of find_best_rule with >= for > (a mutant of it).
BestStep_LaterWins(acc, rs, ms, f, i) ==
    LET score == calculate_rule_score(rs[i], ms[i], f)
    IN  IF score >= acc.score /\ score > 0
        THEN [rule |-> i, score |-> score, info |-> MatchOrEmpty(rs[i], ms[i])]
        ELSE acc

\* The loop body of find_best_rule taking a rule whose score is not below
\* the best so far, a score of 0 included.
BestStep_TakesZero(acc, rs, ms, f, i) ==
    LET score == calculate_rule_score(rs[i], ms[i], f)
    IN  IF score >= acc.score
        THEN [rule |-> i, score |-> score, info |-> MatchOrEmpty(rs[i], ms[i])]
        ELSE acc

\* One turn of the loop of find_best_rule over rule i.
BestStep(acc, rs, ms, f, i) ==
    LET score == calculate_rule_score(rs[i], ms[i], f)
    IN  IF score > acc.score
        THEN [rule |-> i, score |-> score, info |-> MatchOrEmpty(rs[i], ms[i])]
        ELSE acc

RECURSIVE BestLoop(_, _, _, _, _)
BestLoop(acc, rs, ms, f, i) ==
    IF i > Len(rs) THEN acc
    ELSE BestLoop(BestStep(acc, rs, ms, f, i), rs, ms, f, i + 1)

\* RuleMatcher.find_best_rule: (best_rule, best_score, best_match_info); the
\* rule is given by its place in the list, 0 for None.
find_best_rule(rs, ms, f) ==
    IF rs = <<>> THEN [rule |-> 0, score |-> 0, info |-> <<>>]
    ELSE BestLoop([rule |-> 0, score |-> 0, info |-> <<>>], rs, ms, f, 1)

\* list.sort(key=score, reverse=True), a stable sort: x goes behind every
\* entry whose score is at least its own.
RECURSIVE InsertByScore(_, _)
InsertByScore(sorted, x) ==
    IF sorted = <<>> THEN <<x>>
    ELSE IF Head(sorted).score >= x.score
         THEN <<Head(sorted)>> \o InsertByScore(Tail(sorted), x)
         ELSE <<x>> \o sorted

RECURSIVE SortByScore(_)
SortByScore(xs) ==
    IF xs = <<>> THEN <<>>
    ELSE InsertByScore(SortByScore(SubSeq(xs, 1, Len(xs) - 1)), xs[Len(xs)])

\* get_rule_suggestions without the sort.
get_rule_suggestions_Unsorted(rs, ms, f, top_n) ==
    LET scored == [i \in 1..Len(rs) |->
                      [rule |-> i, score |-> calculate_rule_score(rs[i], ms[i], f)]]
    IN  SliceTo(SelectSeq(scored, LAMBDA x : x.score > 0), top_n)

\* RuleMatcher.get_rule_suggestions: the (rule, score) pairs, a rule given
\* by its place in the list.
get_rule_suggestions(rs, ms, f, top_n) ==
    LET scored == [i \in 1..Len(rs) |->
                      [rule |-> i, score |-> calculate_rule_score(rs[i], ms[i], f)]]
        kept   == SelectSeq(scored, LAMBDA x : x.score > 0)
    IN  SliceTo(SortByScore(kept), top_n)

(***************************************************************************)
(* The matcher's inputs.                                                   *)
(***************************************************************************)
RuleNameChoices ==
    { <<"StandardEpisode">>, <<"SimpleNumber">>, <<"MyRule">> }

GroupChoices ==
    { <<>>,
      [series |-> 1, episode |-> 2],
      [series |-> 1, episode |-> 2, title |-> 3] }

\* what a pattern with two capture groups can find
FoundChoices ==
    { None,
      << <<"A">>, None >>,
      << <<" ">>, <<"0","5">> >>,
      << <<"A">>, <<"0","5">> >> }

RuleChoices == [name : RuleNameChoices, groups : GroupChoices]

FeatureChoices ==
    { [n \in FeatureNames |-> n \in on] : on \in SUBSET {"episode_only", "series_name"} }

InitMatch ==
    /\ \E n \in 0..MaxRules :
          /\ rules \in [1..n -> RuleChoices]
          /\ found \in [1..n -> FoundChoices]
    /\ features \in FeatureChoices
    /\ best = NotRun
    /\ suggestions = NotRun
    /\ topN = 0
    /\ mpc = "ready"
    /\ CleanIdle /\ GenIdle /\ NoFileWork

\* best_rule, score, match_info = self.find_best_rule(filename, rules)
FindBestRule ==
    /\ mpc = "ready"
    /\ best' = find_best_rule(rules, found, features)
    /\ mpc' = "found"
    /\ UNCHANGED <<rules, found, features, suggestions, topN>>
    /\ UNCHANGED notMatch

\* get_rule_suggestions(filename, rules, top_n)
GetRuleSuggestions ==
    /\ mpc = "ready"
    /\ \E top_n \in 1..MaxTopN :
          /\ suggestions' = get_rule_suggestions(rules, found, features, top_n)
          /\ topN' = top_n
    /\ mpc' = "suggested"
    /\ UNCHANGED <<rules, found, features, best>>
    /\ UNCHANGED notMatch

NextMatch == FindBestRule \/ GetRuleSuggestions

SpecMatch == InitMatch /\ [][NextMatch]_vars

(***************************************************************************)
(* Claims about the matcher.                                               *)
(***************************************************************************)
ScoreOf(i) == calculate_rule_score(rules[i], found[i], features)
Unmatched(i) == Match(rules[i], found[i]) = None

\* C2: a rule whose match of the file name is None scores exactly 0, is not
\* the rule find_best_rule returns and is in no suggestion.
C2_UnmatchedScoresZero ==
    \A i \in 1..Len(rules) :
        Unmatched(i) =>
            /\ ScoreOf(i) = 0
            /\ mpc = "found" => best.rule # i
            /\ mpc = "suggested" =>
                  \A k \in 1..Len(suggestions) : suggestions[k].rule # i

\* C2 witness: find_best_rule has returned a rule from a list in which
\* another rule did not match.
C2_Witness ==
    /\ mpc = "found"
    /\ best.rule # 0
    /\ \E i \in 1..Len(rules) : Unmatched(i)

\* C3: find_best_rule returns the first rule of the list that reaches the
\* maximum score, that score, and that rule's match of the file name.
C3_FirstMaxWins ==
    (mpc = "found" /\ \E i \in 1..Len(rules) : ScoreOf(i) > 0) =>
        /\ best.rule \in 1..Len(rules)
        /\ \A j \in 1..Len(rules) : ScoreOf(j) <= ScoreOf(best.rule)
        /\ \A j \in 1..(best.rule - 1) : ScoreOf(j) < ScoreOf(best.rule)
        /\ best.score = ScoreOf(best.rule)
        /\ best.info = Match(rules[best.rule], found[best.rule])

\* C3 witness: two rules share the maximum score and the earlier one is
\* returned.
C3_Witness ==
    /\ mpc = "found"
    /\ Len(rules) >= 2
    /\ ScoreOf(1) > 0
    /\ ScoreOf(2) = ScoreOf(1)
    /\ rules[1] # rules[2]
    /\ best.rule = 1

\* The rules that score above 0.
Positive == { i \in 1..Len(rules) : ScoreOf(i) > 0 }

\* Rule i goes before rule j: a higher score, or the same score and an
\* earlier place in the list.
RanksBefore(i, j) ==
    ScoreOf(i) > ScoreOf(j) \/ (ScoreOf(i) = ScoreOf(j) /\ i < j)

\* C14: the suggestions are rules that score above 0, each with its score,
\* in descending order of score with equal scores in list order; they are
\* the first topN of all such rules; and the first suggestion is the rule
\* find_best_rule returns for the same inputs.
C14_SuggestionsRanked ==
    mpc = "suggested" =>
        /\ Len(suggestions) = IntMin(topN, Cardinality(Positive))
        /\ \A k \in 1..Len(suggestions) :
              /\ suggestions[k].rule \in Positive
              /\ suggestions[k].score = ScoreOf(suggestions[k].rule)
        /\ \A k, l \in 1..Len(suggestions) :
              k < l => RanksBefore(suggestions[k].rule, suggestions[l].rule)
        /\ \A i \in Positive :
              (\A k \in 1..Len(suggestions) : suggestions[k].rule # i) =>
                  \A k \in 1..Len(suggestions) : RanksBefore(suggestions[k].rule, i)
        /\ suggestions # <<>> =>
              suggestions[1].rule = find_best_rule(rules, found, features).rule

\* C14's case: two different rules with the same score above 0, both asked
\* for, and they come back in list order.
C14_Witness ==
    /\ mpc = "suggested"
    /\ topN = 2
    /\ Len(rules) = 2
    /\ rules[1] # rules[2]
    /\ ScoreOf(1) > 0
    /\ ScoreOf(2) = ScoreOf(1)
    /\ Len(suggestions) = 2
    /\ suggestions[1].rule = 1
    /\ suggestions[2].rule = 2

\* The scores from 0 to 100.
ScoreRange == 0..(100 * ScoreScale)

\* The priority weight of rule i, 5 for a name the table does not have.
WeightOf(i) ==
    IF rules[i].name \in DOMAIN rule_weights THEN rule_weights[rules[i].name] ELSE 5

\* The completeness bonus of rule i: ten times the share of its declared
\* groups that hold text.
CompletenessOf(i) ==
    IF DOMAIN rules[i].groups = {} THEN 0
    ELSE (Cardinality({ g \in DOMAIN rules[i].groups :
                          NonBlank(Match(rules[i], found[i])[g]) }) * 10 * ScoreScale)
             \div Cardinality(DOMAIN rules[i].groups)

\* C17: the score of every rule is between 0 and 100; for a rule that
\* matched it is the sum of the priority weight, the feature bonus and the
\* completeness bonus, cut at 100; the scores find_best_rule and
\* get_rule_suggestions return are in the same range.
C17_ScoreInRange ==
    /\ \A i \in 1..Len(rules) :
          /\ ScoreOf(i) \in ScoreRange
          /\ ~Falsy(Match(rules[i], found[i])) =>
                ScoreOf(i) =
                    IntMin((WeightOf(i) + FamilyBonus(rules[i].name, features))
                               * ScoreScale + CompletenessOf(i),
                           100 * ScoreScale)
    /\ mpc = "found" => best.score \in ScoreRange
    /\ mpc = "suggested" =>
          \A k \in 1..Len(suggestions) : suggestions[k].score \in ScoreRange

\* C17's case: a rule of a name the weight table does not have, with both of
\* its groups found, scores 5 + 10; a rule that declares no group scores 0.
C17_Witness ==
    /\ mpc = "found"
    /\ Len(rules) = 2
    /\ rules[1].name \notin DOMAIN rule_weights
    /\ DOMAIN rules[1].groups = {"series", "episode"}
    /\ found[1] # None
    /\ CompletenessOf(1) = 10 * ScoreScale
    /\ DOMAIN rules[2].groups = {}
    /\ found[2] # None
    /\ ScoreOf(2) = 0
    /\ best.rule = 1
    /\ best.score = 15 * ScoreScale

\* C18: when no rule of the list scores above 0, and so for the empty
\* list, find_best_rule returns no rule, the score 0 and an empty match.
C18_NothingFound ==
    (mpc = "found" /\ Positive = {}) =>
        best = [rule |-> 0, score |-> 0, info |-> <<>>]

\* C18's case: a list of two rules, one that did not match and one that
\* matched but declares no group, and find_best_rule returned no rule.
C18_Witness ==
    /\ mpc = "found"
    /\ Len(rules) = 2
    /\ found[1] = None
    /\ found[2] # None
    /\ DOMAIN rules[2].groups = {}
    /\ Positive = {}
    /\ best.rule = 0
    /\ best.score = 0
    /\ best.info = <<>>

(***************************************************************************)
(* More Python string operations, used by RegexRule.                       *)
(*                                                                         *)
(* A Chinese character of the source is one element written in ASCII:      *)
(* "Di" 第, "Ji" 季, "Ge" 格, "Shi" 式, "Cuo" 错, "Wu" 误, "Que" 缺,       *)
(* "Shao" 少.                                                              *)
(***************************************************************************)
\* str.strip() == "": nothing but whitespace
IsBlank(s) == \A k \in 1..Len(s) : s[k] \in Whitespace

\* str.isdigit()
IsDigit(s) == s # <<>> /\ \A k \in 1..Len(s) : s[k] \in Digits

DigitValue ==
    ( "0" :> 0 ) @@ ( "1" :> 1 ) @@ ( "2" :> 2 ) @@ ( "3" :> 3 ) @@ ( "4" :> 4 ) @@
    ( "5" :> 5 ) @@ ( "6" :> 6 ) @@ ( "7" :> 7 ) @@ ( "8" :> 8 ) @@ ( "9" :> 9 )

\* int(s) of a string of digits
RECURSIVE ParseInt(_)
ParseInt(s) ==
    IF s = <<>> THEN 0
    ELSE 10 * ParseInt(SubSeq(s, 1, Len(s) - 1)) + DigitValue[s[Len(s)]]

\* str.zfill(width): zeros go behind a leading sign
ZFill(s, width) ==
    IF Len(s) >= width THEN s
    ELSE IF s # <<>> /\ s[1] \in {"+", "-"}
         THEN <<s[1]>> \o Run("0", width - Len(s)) \o Tail(s)
         ELSE Run("0", width - Len(s)) \o s

\* format(value, '0>width'): '0' to the left up to width
PadLeft(s, width) ==
    IF Len(s) >= width THEN s ELSE Run("0", width - Len(s)) \o s

\* whether pat occurs in s at index i
OccursAt(s, i, pat) ==
    /\ i + Len(pat) - 1 <= Len(s)
    /\ \A k \in 1..Len(pat) : s[i + k - 1] = pat[k]

\* whether pat occurs in s at index i, letter case ignored
OccursAtNoCase(s, i, pat) ==
    /\ i + Len(pat) - 1 <= Len(s)
    /\ \A k \in 1..Len(pat) : UpperChar(s[i + k - 1]) = UpperChar(pat[k])

\* str.endswith(pat)
EndsWith(s, pat) == Len(s) >= Len(pat) /\ OccursAt(s, Len(s) - Len(pat) + 1, pat)

\* str.replace(pat, rep) for a non-empty pat, from index i on
RECURSIVE ReplaceFrom(_, _, _, _)
ReplaceFrom(s, i, pat, rep) ==
    IF i > Len(s) THEN <<>>
    ELSE IF OccursAt(s, i, pat) THEN rep \o ReplaceFrom(s, i + Len(pat), pat, rep)
    ELSE <<s[i]>> \o ReplaceFrom(s, i + 1, pat, rep)

ReplaceAll(s, pat, rep) == ReplaceFrom(s, 1, pat, rep)

\* The end of the longest run of characters of cs that starts at index i
\* (i - 1 when s[i] is not in cs).
RECURSIVE RunEnd(_, _, _)
RunEnd(s, i, cs) ==
    IF i > Len(s) \/ s[i] \notin cs THEN i - 1 ELSE RunEnd(s, i + 1, cs)

\* The end of the longest run of characters not in cs that starts at i.
RECURSIVE RunEndNot(_, _, _)
RunEndNot(s, i, cs) ==
    IF i > Len(s) \/ s[i] \in cs THEN i - 1 ELSE RunEndNot(s, i + 1, cs)

\* re.sub(r'S\d+', 'S' + season, s), from index i on: every S followed by
\* digits is replaced.
RECURSIVE SubSeasonFrom(_, _, _)
SubSeasonFrom(s, i, season) ==
    IF i > Len(s) THEN <<>>
    ELSE IF s[i] = "S" /\ RunEnd(s, i + 1, Digits) > i
         THEN <<"S">> \o season
                  \o SubSeasonFrom(s, RunEnd(s, i + 1, Digits) + 1, season)
         ELSE <<s[i]>> \o SubSeasonFrom(s, i + 1, season)

\* re.sub(r'S(\d+)E[^-\s]*', rf'S\1 {episode}', s), from index i on
RECURSIVE SubSpecialFrom(_, _, _)
SubSpecialFrom(s, i, episode) ==
    IF i > Len(s) THEN <<>>
    ELSE LET d == RunEnd(s, i + 1, Digits)
         IN  IF s[i] = "S" /\ d > i /\ d + 1 <= Len(s) /\ s[d + 1] = "E"
             THEN LET e == RunEndNot(s, d + 2, {"-"} \cup Whitespace)
                  IN  <<"S">> \o SubSeq(s, i + 1, d) \o <<" ">> \o episode
                          \o SubSpecialFrom(s, e + 1, episode)
             ELSE <<s[i]>> \o SubSpecialFrom(s, i + 1, episode)

\* re.sub(r'(S\d+E\d+)(\[)', r'\1 \2', s), from index i on
RECURSIVE SpaceBeforeBracketFrom(_, _)
SpaceBeforeBracketFrom(s, i) ==
    IF i > Len(s) THEN <<>>
    ELSE LET d == RunEnd(s, i + 1, Digits)
             e == RunEnd(s, d + 2, Digits)
         IN  IF /\ s[i] = "S" /\ d > i /\ d + 1 <= Len(s) /\ s[d + 1] = "E"
                /\ e > d + 1 /\ e + 1 <= Len(s) /\ s[e + 1] = "["
             THEN SubSeq(s, i, e) \o <<" ", "[">> \o SpaceBeforeBracketFrom(s, e + 2)
             ELSE <<s[i]>> \o SpaceBeforeBracketFrom(s, i + 1)

(***************************************************************************)
(* ConfigManager and RegexRule.extract_parent_info                         *)
(*                                                                         *)
(* A season pattern is named by a token: "S" for S(\d+), "Season" for      *)
(* Season\s*(\d+), "DiJi" for 第(\d+)季, all searched with re.IGNORECASE.  *)
(* A file path is the tuple of its parts (Path(file_path).parts), the      *)
(* empty tuple for the empty path.                                         *)
(***************************************************************************)
\* PARENT_FOLDER_RECOGNITION_CONFIG['season_patterns']
DefaultSeasonPatterns == <<"S", "Season", "DiJi">>

\* The indexes of part where the pattern matches.
SeasonMatchStarts(pattern, part) ==
    IF pattern = "S"
    THEN {i \in 1..Len(part) :
            UpperChar(part[i]) = "S" /\ RunEnd(part, i + 1, Digits) > i}
    ELSE IF pattern = "Season"
    THEN {i \in 1..Len(part) :
            /\ OccursAtNoCase(part, i, <<"S","e","a","s","o","n">>)
            /\ LET w == RunEnd(part, i + 6, Whitespace)
               IN  RunEnd(part, w + 1, Digits) > w}
    ELSE {i \in 1..Len(part) :
            /\ part[i] = "Di"
            /\ LET d == RunEnd(part, i + 1, Digits)
               IN  d > i /\ d + 1 <= Len(part) /\ part[d + 1] = "Ji"}

\* re.search(pattern, part, re.IGNORECASE): group(1) of the leftmost match,
\* None without a match.
SeasonSearch(pattern, part) ==
    LET starts == SeasonMatchStarts(pattern, part)
    IN  IF starts = {} THEN None
        ELSE LET i == SetMin(starts)
                 b == IF pattern = "Season"
                      THEN RunEnd(part, i + 6, Whitespace) + 1
                      ELSE i + 1
             IN  SubSeq(part, b, RunEnd(part, b, Digits))

\* The first pattern of the list that matches part gives the season; None
\* when no pattern matches.
RECURSIVE SeasonOfPart(_, _, _)
SeasonOfPart(patterns, part, k) ==
    IF k > Len(patterns) THEN None
    ELSE IF SeasonSearch(patterns[k], part) # None
         THEN SeasonSearch(patterns[k], part)
         ELSE SeasonOfPart(patterns, part, k + 1)

\* dict[k] = v
Put(d, k, v) == [x \in DOMAIN d \cup {k} |-> IF x = k THEN v ELSE d[x]]

\* 'k' in d
Has(d, k) == k \in DOMAIN d

\* The dict without keys.
EmptyDict == <<>>

\* RegexRule.extract_parent_info: the dict with 'season' and 'series_name'.
extract_parent_info(cfg, path_parts) ==
    IF ~cfg.enabled THEN EmptyDict
    ELSE LET bearing == {i \in 1..Len(path_parts) :
                            SeasonOfPart(cfg.season_patterns, path_parts[i], 1) # None}
             \* for part in reversed(path_parts): the last part that matches
             withSeason ==
                 IF cfg.enable_season_recognition /\ bearing # {}
                 THEN Put(EmptyDict, "season",
                          ZFill(SeasonOfPart(cfg.season_patterns,
                                             path_parts[SetMax(bearing)], 1), 2))
                 ELSE EmptyDict
             \* for i, part in enumerate(path_parts): the first part that
             \* matches and has a part before it
             named == {i \in bearing : i > 1}
         IN  IF /\ cfg.enable_series_recognition
                /\ Has(withSeason, "season")
                /\ named # {}
             THEN Put(withSeason, "series_name", path_parts[SetMin(named) - 1])
             ELSE withSeason

(***************************************************************************)
(* RegexRule.generate_output                                               *)
(*                                                                         *)
(* output_format is a tuple of segments: [lit |-> text], a named field     *)
(* [field |-> name, width |-> w] for {name} (w = 0) or {name:0>w}, and     *)
(* [pos |-> k] for a positional field {k}.  special_handling is a dict.    *)
(* The result is [exc |-> "", text |-> the returned str], or               *)
(* [exc |-> the exception that escapes, text |-> <<>>].                    *)
(***************************************************************************)
\* The characters of a field name or of a literal default.
TextOf ==
    ( "series" :> <<"s","e","r","i","e","s">> ) @@
    ( "season" :> <<"s","e","a","s","o","n">> ) @@
    ( "episode" :> <<"e","p","i","s","o","d","e">> ) @@
    ( "title" :> <<"t","i","t","l","e">> ) @@
    ( "quality" :> <<"q","u","a","l","i","t","y">> ) @@
    ( "suffix" :> <<"s","u","f","f","i","x">> ) @@
    ( "extension" :> <<"e","x","t","e","n","s","i","o","n">> ) @@
    ( "parent_season" :> <<"p","a","r","e","n","t","_","s","e","a","s","o","n">> ) @@
    ( "Extra" :> <<"E","x","t","r","a">> )

\* f"格式错误: 缺少 {e}" for KeyError(key): str(e) is repr(key)
FormatError(key) ==
    <<"Ge","Shi","Cuo","Wu",":"," ","Que","Shao"," ">> \o <<"'">> \o TextOf[key] \o <<"'">>

Returned(text) == [exc |-> "", text |-> text]
Raised(exc) == [exc |-> exc, text |-> <<>>]

\* The first loop: None and blank values become "".
Normalize(extracted_info) ==
    [k \in DOMAIN extracted_info |->
        IF extracted_info[k] = None \/ IsBlank(extracted_info[k])
        THEN <<>> ELSE extracted_info[k]]

\* uppercase_fields: the loop over the listed fields.
RECURSIVE ApplyUppercase(_, _, _)
ApplyUppercase(info, fields, k) ==
    IF k > Len(fields) THEN info
    ELSE ApplyUppercase(
            IF Has(info, fields[k]) THEN Put(info, fields[k], Upper(info[fields[k]]))
            ELSE info,
            fields, k + 1)

\* The loop over the sources of one fallback target: the value assigned,
\* "" when no source assigns.
RECURSIVE FallbackValue(_, _, _)
FallbackValue(info, sources, k) ==
    IF k > Len(sources) THEN <<>>
    ELSE IF Has(info, sources[k]) /\ ~IsBlank(info[sources[k]])
         THEN info[sources[k]]
         ELSE IF ~Has(info, sources[k]) THEN TextOf[sources[k]]
         ELSE FallbackValue(info, sources, k + 1)

\* fallback_fields: the loop over the (target, sources) items.
RECURSIVE ApplyFallback(_, _, _)
ApplyFallback(info, items, k) ==
    IF k > Len(items) THEN info
    ELSE LET target == items[k].target
             blank  == ~Has(info, target) \/ IsBlank(info[target])
         IN  ApplyFallback(
                IF blank THEN Put(info, target, FallbackValue(info, items[k].sources, 1))
                ELSE info,
                items, k + 1)

\* The parent-folder step: series_name replaces series, season is kept as
\* parent_season.
ApplyParentInfo(info, parent_info) ==
    LET withSeries ==
            IF Has(parent_info, "series_name") /\ parent_info["series_name"] # <<>>
            THEN Put(info, "series", parent_info["series_name"]) ELSE info
    IN  IF Has(parent_info, "season") /\ parent_info["season"] # <<>>
        THEN Put(withSeries, "parent_season", parent_info["season"])
        ELSE withSeries

\* re.search(year_pattern, episode_num) for the year patterns of the model:
\* "Year4" is ^(19|20)\d{2}$.
YearSearch(year_pattern, s) ==
    /\ year_pattern = "Year4"
    /\ Len(s) = 4
    /\ SubSeq(s, 1, 2) \in { <<"1","9">>, <<"2","0">> }
    /\ s[3] \in Digits /\ s[4] \in Digits

\* AsYear that writes the title whether or not there is one.
AsYear_OverwritesTitle(info, episode_num) ==
    Put(Put(info, "episode", <<"0","1">>), "title", <<"(">> \o episode_num \o <<")">>)

\* The value is taken for a year: episode "01", an empty title "(value)".
AsYear(info, episode_num) ==
    LET e == Put(info, "episode", <<"0","1">>)
    IN  IF ~Has(e, "title") \/ e["title"] = <<>>
        THEN Put(e, "title", <<"(">> \o episode_num \o <<")">>)
        ELSE e

\* The episode steps: the default "01", then the year check of a numeric
\* episode.
ApplyEpisode(info, special_handling) ==
    LET defaulted ==
            IF Has(info, "episode") /\ info["episode"] = <<>>
            THEN Put(info, "episode", <<"0","1">>) ELSE info
    IN  IF Has(defaulted, "episode") /\ DOMAIN special_handling # {}
        THEN LET episode_num == defaulted["episode"]
             IN  IF IsDigit(episode_num)
                 THEN IF Has(special_handling, "year_pattern")
                      THEN (IF YearSearch(special_handling["year_pattern"], episode_num)
                            THEN AsYear(defaulted, episode_num) ELSE defaulted)
                      ELSE IF Has(special_handling, "max_episode")
                      THEN (IF ParseInt(episode_num) > special_handling["max_episode"]
                            THEN AsYear(defaulted, episode_num) ELSE defaulted)
                      ELSE defaulted
                 ELSE defaulted
        ELSE defaulted

\* self.output_format.format(**processed_info), from segment k on:
\* [exc |-> "", text], or the exception of the first field that fails.
RECURSIVE Format(_, _, _)
Format(output_format, info, k) ==
    IF k > Len(output_format) THEN Returned(<<>>)
    ELSE LET seg  == output_format[k]
             rest == Format(output_format, info, k + 1)
         IN  IF Has(seg, "lit")
             THEN (IF rest.exc = "" THEN Returned(seg.lit \o rest.text) ELSE rest)
             ELSE IF Has(seg, "pos") THEN [exc |-> "IndexError", text |-> <<>>]
             ELSE IF ~Has(info, seg.field)
                  THEN [exc |-> "KeyError", text |-> FormatError(seg.field)]
             ELSE IF rest.exc = ""
                  THEN Returned(PadLeft(info[seg.field], seg.width) \o rest.text)
                  ELSE rest

\* A custom_season that is no str: the bound method a caller passes.
BoundMethod == <<"bound method">>

\* ResolveSeason with the folder's season ahead of the custom one.
ResolveSeason_FolderFirst(cfg, info, custom_season) ==
    IF Has(info, "parent_season") THEN info["parent_season"]
    ELSE IF custom_season # None /\ custom_season # <<>> THEN ZFill(custom_season, 2)
    ELSE IF cfg.enable_custom_season THEN cfg.default_season
    ELSE None

\* The season that replaces the rendered one: custom_season, else
\* parent_season, else the default season; None when there is none.
ResolveSeason(cfg, info, custom_season) ==
    IF custom_season # None /\ custom_season # <<>> THEN ZFill(custom_season, 2)
    ELSE IF Has(info, "parent_season") THEN info["parent_season"]
    ELSE IF cfg.enable_custom_season THEN cfg.default_season
    ELSE None

\* The special-episode display step.
ApplySpecialEpisode(text, info) ==
    IF Has(info, "episode")
          /\ Upper(info["episode"]) \in { <<"O","V","A">>, <<"S","P">>,
                                          <<"S","P","E","C","I","A","L">> }
    THEN SubSpecialFrom(text, 1, info["episode"])
    ELSE text

\* The four cleanup steps of " - " and "None".
Cleanup(text) ==
    LET a == ReplaceAll(text, <<" ","-"," ","N","o","n","e">>, <<>>)
        b == ReplaceAll(a, <<" ","-"," "," ","-"," ">>, <<" ","-"," ">>)
        c == ReplaceAll(b, <<" ","-"," "," ">>, <<>>)
    IN  IF EndsWith(c, <<" ","-"," ">>) THEN SubSeq(c, 1, Len(c) - 3) ELSE c

\* The extension step: the suffix field of the rule CASO完整格式, the
\* extension field under preserve_full_extension, else the argument.
AppendExtension(rule, info, text, extension) ==
    IF rule.name = <<"CasoFull">> /\ Has(info, "suffix")
    THEN text \o <<".">> \o info["suffix"]
    ELSE IF Has(rule.special_handling, "preserve_full_extension")
            /\ rule.special_handling["preserve_full_extension"]
    THEN text \o <<".">> \o (IF Has(info, "extension") THEN info["extension"] ELSE <<>>)
    ELSE text \o extension

\* The fields as generate_output resolves them before rendering.
ProcessedInfo(rule, cfg, extracted_info, file_path, apply_folder_info) ==
    LET sh          == rule.special_handling
        parent_info == IF file_path # <<>> /\ apply_folder_info
                       THEN extract_parent_info(cfg, file_path) ELSE EmptyDict
        normalized  == Normalize(extracted_info)
        uppercased  == IF Has(sh, "uppercase_fields")
                       THEN ApplyUppercase(normalized, sh["uppercase_fields"], 1)
                       ELSE normalized
        fallen      == IF Has(sh, "fallback_fields")
                       THEN ApplyFallback(uppercased, sh["fallback_fields"], 1)
                       ELSE uppercased
        parented    == IF DOMAIN parent_info # {}
                       THEN ApplyParentInfo(fallen, parent_info) ELSE fallen
    IN  ApplyEpisode(parented, sh)

\* re.sub(r'S\d+', f'S{season_num}', result) when there is a season_num
SubstituteSeason(text, season_num) ==
    IF season_num # None /\ season_num # <<>>
    THEN SubSeasonFrom(text, 1, season_num) ELSE text

\* RenderedOutput without the except KeyError clause.
RenderedOutput_NoCatch(rule, cfg, extension, custom_season, info, rendered) ==
    IF rendered.exc # "" THEN Raised(rendered.exc)
    ELSE IF custom_season = BoundMethod THEN Raised("AttributeError")
    ELSE Returned(
            AppendExtension(rule, info,
                SpaceBeforeBracketFrom(
                    Cleanup(ApplySpecialEpisode(
                        SubstituteSeason(rendered.text,
                                         ResolveSeason(cfg, info, custom_season)),
                        info)), 1),
                extension))

\* generate_output from the rendering of the template on: a KeyError of the
\* rendering is returned as the format-error text, any other exception
\* leaves; else the season, the special episode, the cleanup and the
\* extension are applied to the rendered text.
RenderedOutput(rule, cfg, extension, custom_season, info, rendered) ==
    IF rendered.exc = "KeyError" THEN Returned(rendered.text)
    ELSE IF rendered.exc # "" THEN Raised(rendered.exc)
    ELSE IF custom_season = BoundMethod THEN Raised("AttributeError")
    ELSE Returned(
            AppendExtension(rule, info,
                SpaceBeforeBracketFrom(
                    Cleanup(ApplySpecialEpisode(
                        SubstituteSeason(rendered.text,
                                         ResolveSeason(cfg, info, custom_season)),
                        info)), 1),
                extension))

\* generate_output from the resolved fields on
OutputOf(rule, cfg, extension, custom_season, info) ==
    RenderedOutput(rule, cfg, extension, custom_season, info,
                   Format(rule.output_format, info, 1))

\* RegexRule.generate_output
generate_output(rule, cfg, extracted_info, extension, file_path, custom_season, apply_folder_info) ==
    OutputOf(rule, cfg, extension, custom_season,
             ProcessedInfo(rule, cfg, extracted_info, file_path, apply_folder_info))


(***************************************************************************)
(* The generator's inputs.                                                 *)
(***************************************************************************)
Lit(text) == [lit |-> text]
Field(name, width) == [field |-> name, width |-> width]

\* '{series} S01E{episode:0>2} - {title}'
TemplateStandard ==
    << Field("series", 0), Lit(<<" ","S","0","1","E">>), Field("episode", 2),
       Lit(<<" ","-"," ">>), Field("title", 0) >>

\* '{series} S{season:0>2}E{episode:0>2} - {title}'
TemplateSeason ==
    << Field("series", 0), Lit(<<" ","S">>), Field("season", 2), Lit(<<"E">>),
       Field("episode", 2), Lit(<<" ","-"," ">>), Field("title", 0) >>

\* '{title} - {quality}'
TemplateQuality ==
    << Field("title", 0), Lit(<<" ","-"," ">>), Field("quality", 0) >>

\* '{series} E{episode:0>2}': a template without a season token
TemplateNoSeason ==
    << Field("series", 0), Lit(<<" ","E">>), Field("episode", 2) >>

TemplateChoices ==
    { TemplateStandard, TemplateSeason, TemplateQuality, TemplateNoSeason }

SpecialHandlingChoices ==
    { EmptyDict,
      [uppercase_fields |-> <<"series">>],
      [year_pattern |-> "Year4"],
      [max_episode |-> 100],
      [year_pattern |-> "Year4", max_episode |-> 100],
      [fallback_fields |-> << [target |-> "title", sources |-> <<"episode", "Extra">>] >>],
      [uppercase_fields |-> <<"series">>,
       fallback_fields |-> << [target |-> "title", sources |-> <<"series">>] >>] }

GenRuleChoices ==
    [name : { <<"StandardEpisode">> },
     output_format : TemplateChoices,
     special_handling : SpecialHandlingChoices]

\* what RegexRule.match hands over: the declared fields, each a str or None
ExtractedChoices ==
    { Put(e, "series", <<"A","b">>) :
        e \in [ {"episode"} -> { <<"5">>, <<"2","0","2","0">>, <<"O","V","A">>, <<>>,
                                 <<"5","0","0">> } ]
              \cup { Put(Put(x, "title", t), "season", <<"2">>) :
                        x \in [ {"episode"} -> { <<"5">>, <<"O","V","A">> } ],
                        t \in { None, <<"T">> } }
              \cup { Put(x, "title", t) :
                        x \in [ {"episode"} -> { <<"5">>, <<"2","0","2","0">>, <<>> } ],
                        t \in { None, <<"T">> } }
              \cup { [episode |-> <<"5">>, title |-> <<"S","9">>] } }

CustomSeasonChoices == { None, <<>>, <<"3">>, <<"1","2">> }

PathChoices ==
    { <<>>,
      << <<"/">>, <<"S","h">>, <<"S","0","2">>, <<"f",".","m","k","v">> >>,
      << <<"/">>, <<"S","h">>, <<"S","e","a","s","o","n"," ","4">>,
         <<"Di","5","Ji">>, <<"f",".","m","k","v">> >> }

\* ConfigManager's settings: the default configuration and each switch off
ConfigDefault ==
    [enabled |-> TRUE, enable_series_recognition |-> TRUE,
     enable_season_recognition |-> TRUE, enable_custom_season |-> TRUE,
     default_season |-> <<"0","1">>, season_patterns |-> DefaultSeasonPatterns]

ConfigChoices ==
    { ConfigDefault,
      [ConfigDefault EXCEPT !.enabled = FALSE],
      [ConfigDefault EXCEPT !.enable_series_recognition = FALSE],
      [ConfigDefault EXCEPT !.enable_season_recognition = FALSE],
      [ConfigDefault EXCEPT !.enable_custom_season = FALSE] }

\* The calls about the extension: rules named 'CASO完整格式' and not, with
\* and without preserve_full_extension, on matches with and without the
\* fields suffix and extension.
ExtensionCalls ==
    [rule : [name : { <<"StandardEpisode">>, <<"CasoFull">> },
             output_format : { TemplateNoSeason },
             special_handling : { EmptyDict, [preserve_full_extension |-> TRUE],
                                  [preserve_full_extension |-> FALSE] }],
     cfg : { ConfigDefault },
     extracted_info :
        { [series |-> <<"A","b">>, episode |-> <<"5">>],
          [series |-> <<"A","b">>, episode |-> <<"5">>, suffix |-> <<"s","c">>],
          [series |-> <<"A","b">>, episode |-> <<"5">>,
           extension |-> <<"t","a","r",".","g","z">>],
          [series |-> <<"A","b">>, episode |-> <<"5">>, suffix |-> <<"s","c">>,
           extension |-> <<"t","a","r",".","g","z">>] },
     extension : { <<".","m","k","v">> }, file_path : { <<>> },
     custom_season : { None }, apply_folder_info : { FALSE }]

GenCalls ==
    [rule : GenRuleChoices, cfg : ConfigChoices, extracted_info : ExtractedChoices,
     extension : { <<".","m","k","v">> }, file_path : PathChoices,
     custom_season : CustomSeasonChoices, apply_folder_info : BOOLEAN]
    \cup ExtensionCalls

InitGen ==
    /\ genCall \in GenCalls
    /\ genOut = NotRun
    /\ gpc = "ready"
    /\ CleanIdle /\ MatchIdle /\ NoFileWork

\* rule.generate_output(extracted_info, extension, file_path, custom_season,
\*                      apply_folder_info)
GenerateOutput ==
    /\ gpc = "ready"
    /\ genOut' = generate_output(genCall.rule, genCall.cfg, genCall.extracted_info,
                                 genCall.extension, genCall.file_path,
                                 genCall.custom_season, genCall.apply_folder_info)
    /\ gpc' = "done"
    /\ UNCHANGED genCall
    /\ UNCHANGED notGen

NextGen == GenerateOutput

SpecGen == InitGen /\ [][NextGen]_vars


(***************************************************************************)
(* Claims about the generator.                                             *)
(***************************************************************************)
\* The digits of every S<digits> token of a text.
SeasonTokens(t) ==
    { SubSeq(t, i + 1, RunEnd(t, i + 1, Digits)) :
        i \in { j \in 1..Len(t) : t[j] = "S" /\ RunEnd(t, j + 1, Digits) > j } }

\* The season the folders of the call's path give, None when they give none
\* or the call does not ask for them.
FolderSeason ==
    IF genCall.apply_folder_info /\ genCall.file_path # <<>>
    THEN LET parent_info == extract_parent_info(genCall.cfg, genCall.file_path)
         IN  IF Has(parent_info, "season") THEN parent_info["season"] ELSE None
    ELSE None

CustomSeasonGiven == genCall.custom_season \notin { None, <<>> }

\* The fields of the call as resolved for rendering, and the template as
\* rendered from them.
GenInfo ==
    ProcessedInfo(genCall.rule, genCall.cfg, genCall.extracted_info,
                  genCall.file_path, genCall.apply_folder_info)

GenRendered == Format(genCall.rule.output_format, GenInfo, 1)

\* C4: with a custom season every S<digits> token of the output carries the
\* custom season padded to two digits, whatever the folders or the default
\* say; without one the folder's season is carried; the default season is
\* carried only when neither is there and the default is enabled; otherwise
\* the tokens are the ones the template rendered.
C4_SeasonPriority ==
    (gpc = "done" /\ genOut.exc = "" /\ GenRendered.exc = "") =>
        LET tokens == SeasonTokens(genOut.text)
        IN  IF CustomSeasonGiven
            THEN tokens \subseteq { ZFill(genCall.custom_season, 2) }
            ELSE IF FolderSeason # None
            THEN tokens \subseteq { FolderSeason }
            ELSE IF genCall.cfg.enable_custom_season
            THEN tokens \subseteq { genCall.cfg.default_season }
            ELSE tokens = SeasonTokens(GenRendered.text)

\* C4's case: custom season 3 against a folder of season 02 and the default
\* 01, and the output says S03.
C4_Witness ==
    /\ gpc = "done"
    /\ genCall.custom_season = <<"3">>
    /\ FolderSeason = <<"0","2">>
    /\ genCall.cfg.enable_custom_season
    /\ genOut.exc = ""
    /\ SeasonTokens(genOut.text) = { <<"0","3">> }

\* The positions of the template's fields that the resolved fields lack.
MissingAt ==
    { k \in 1..Len(genCall.rule.output_format) :
        /\ Has(genCall.rule.output_format[k], "field")
        /\ ~Has(GenInfo, genCall.rule.output_format[k].field) }

\* C10: a template that names a field the resolved fields lack makes
\* generate_output return the format-error string that names the first such
\* field, and nothing is raised.
C10_MissingFieldReported ==
    (gpc = "done" /\ MissingAt # {}) =>
        /\ genOut.exc = ""
        /\ genOut.text =
              FormatError(genCall.rule.output_format[SetMin(MissingAt)].field)

\* C10's case: the template asks for quality, the match has none.
C10_Witness ==
    /\ gpc = "done"
    /\ genCall.rule.output_format = TemplateQuality
    /\ ~Has(GenInfo, "quality")
    /\ genOut = Returned(FormatError("quality"))

\* The digits of the S<digits> tokens of a text from index i on, in the
\* order of the text.
RECURSIVE SeasonTokensFrom(_, _)
SeasonTokensFrom(t, i) ==
    IF i > Len(t) THEN <<>>
    ELSE IF t[i] = "S" /\ RunEnd(t, i + 1, Digits) > i
         THEN << SubSeq(t, i + 1, RunEnd(t, i + 1, Digits)) >>
                  \o SeasonTokensFrom(t, RunEnd(t, i + 1, Digits) + 1)
         ELSE SeasonTokensFrom(t, i + 1)

\* The season generate_output resolved for the call, None when it resolved
\* none.
GenSeason == ResolveSeason(genCall.cfg, GenInfo, genCall.custom_season)

\* C21: with a season resolved, the first S<digits> token of the rendered
\* text carries the resolved season in the output and every later
\* S<digits> token is as it was rendered.
C21_OnlyFirstTokenReplaced ==
    (/\ gpc = "done"
     /\ genOut.exc = ""
     /\ GenRendered.exc = ""
     /\ GenSeason \notin { None, <<>> }
     /\ SeasonTokensFrom(GenRendered.text, 1) # <<>>) =>
        SeasonTokensFrom(genOut.text, 1)
            = <<GenSeason>> \o Tail(SeasonTokensFrom(GenRendered.text, 1))

\* The extracted episode is all digits, the year pattern did not take it
\* for a year, and it is above the rule's max_episode.
EpisodeAboveMax ==
    /\ Has(genCall.extracted_info, "episode")
    /\ IsDigit(genCall.extracted_info["episode"])
    /\ ~(/\ Has(genCall.rule.special_handling, "year_pattern")
         /\ YearSearch(genCall.rule.special_handling["year_pattern"],
                       genCall.extracted_info["episode"]))
    /\ Has(genCall.rule.special_handling, "max_episode")
    /\ ParseInt(genCall.extracted_info["episode"])
          > genCall.rule.special_handling["max_episode"]

\* C22: a numeric episode that no year pattern took for a year, whether
\* the rule has none or has one that does not match, and that is above
\* max_episode is rendered as episode "01", and a match without a title
\* gets the title "(<the number>)".
C22_AboveMaxIsYear ==
    (gpc = "done" /\ EpisodeAboveMax) =>
        /\ GenInfo["episode"] = <<"0","1">>
        /\ GenInfo["title"] =
              IF Has(genCall.extracted_info, "title")
                    /\ genCall.extracted_info["title"] # None
                    /\ ~IsBlank(genCall.extracted_info["title"])
              THEN genCall.extracted_info["title"]
              ELSE <<"(">> \o genCall.extracted_info["episode"] \o <<")">>

\* The extracted fields with None and blank values as "".
GenNormalized == Normalize(genCall.extracted_info)

\* What the first source of a fallback gives: the value of the field it
\* names when that is not empty, else the source itself as a text.
FirstSourceValue(sources) ==
    IF sources = <<>> THEN <<>>
    ELSE IF Has(GenNormalized, sources[1]) /\ ~IsBlank(GenNormalized[sources[1]])
    THEN GenNormalized[sources[1]]
    ELSE TextOf[sources[1]]

\* C23: under a rule whose special handling is fallback_fields alone, a
\* target that is not empty keeps its value, and an empty target gets what
\* its first source gives: the value of the field the source names when
\* that is not empty, else the source as a literal text, a source that
\* names an empty field included; later sources are not consulted.
C23_FallbackFirstSourceWins ==
    (gpc = "done" /\ DOMAIN genCall.rule.special_handling = {"fallback_fields"}) =>
        \A k \in 1..Len(genCall.rule.special_handling["fallback_fields"]) :
            LET item == genCall.rule.special_handling["fallback_fields"][k]
            IN  /\ Has(GenInfo, item.target)
                /\ GenInfo[item.target] =
                      IF Has(GenNormalized, item.target)
                            /\ ~IsBlank(GenNormalized[item.target])
                      THEN GenNormalized[item.target]
                      ELSE FirstSourceValue(item.sources)

\* The series name the folders of the call's path give, None when they
\* give none or the call does not ask for them.
FolderSeries ==
    IF genCall.apply_folder_info /\ genCall.file_path # <<>>
    THEN LET parent_info == extract_parent_info(genCall.cfg, genCall.file_path)
         IN  IF Has(parent_info, "series_name") /\ parent_info["series_name"] # <<>>
             THEN parent_info["series_name"] ELSE None
    ELSE None

\* 'series' is one of the rule's uppercase_fields
SeriesUppercased ==
    /\ Has(genCall.rule.special_handling, "uppercase_fields")
    /\ \E k \in 1..Len(genCall.rule.special_handling["uppercase_fields"]) :
          genCall.rule.special_handling["uppercase_fields"][k] = "series"

\* the rule's fallback_fields fill an empty title from 'series'
TitleFallsBackToSeries ==
    /\ Has(genCall.rule.special_handling, "fallback_fields")
    /\ \E k \in 1..Len(genCall.rule.special_handling["fallback_fields"]) :
          genCall.rule.special_handling["fallback_fields"][k]
              = [target |-> "title", sources |-> <<"series">>]
    /\ ~Has(GenNormalized, "title") \/ IsBlank(GenNormalized["title"])

\* C24: the series name of the folders replaces the matched series before
\* uppercase_fields and fallback_fields run: it is upper-cased when
\* 'series' is an uppercase field, and it is the series a fallback copies.
C24_FolderSeriesFirst ==
    (gpc = "done" /\ FolderSeries # None /\ Has(genCall.extracted_info, "series")) =>
        /\ SeriesUppercased => GenInfo["series"] = Upper(FolderSeries)
        /\ ~SeriesUppercased => GenInfo["series"] = FolderSeries
        /\ TitleFallsBackToSeries => GenInfo["title"] = GenInfo["series"]

\* The name generate_output has built when it reaches the extension step.
GenBody ==
    SpaceBeforeBracketFrom(
        Cleanup(ApplySpecialEpisode(SubstituteSeason(GenRendered.text, GenSeason),
                                    GenInfo)), 1)

\* preserve_full_extension is set for the rule
PreserveFullExtension ==
    /\ Has(genCall.rule.special_handling, "preserve_full_extension")
    /\ genCall.rule.special_handling["preserve_full_extension"]

\* C25: generate_output appends exactly one ending to the name it built:
\* '.' and the suffix field when the resolved fields have one, whatever the
\* rule; else '.' and the extension field when preserve_full_extension is
\* set; else the extension argument as passed.
C25_ExtensionPolicy ==
    (gpc = "done" /\ genOut.exc = "" /\ GenRendered.exc = "") =>
        genOut.text =
            GenBody \o
                (IF Has(GenInfo, "suffix") THEN <<".">> \o GenInfo["suffix"]
                 ELSE IF PreserveFullExtension
                 THEN <<".">> \o (IF Has(GenInfo, "extension")
                                  THEN GenInfo["extension"] ELSE <<>>)
                 ELSE genCall.extension)

\* pat in s
Contains(s, pat) == \E i \in 1..Len(s) + 1 : OccursAt(s, i, pat)

\* The episode the match extracted is all digits and the rule's year_pattern
\* matches it.
EpisodeIsYear ==
    /\ Has(genCall.extracted_info, "episode")
    /\ IsDigit(genCall.extracted_info["episode"])
    /\ Has(genCall.rule.special_handling, "year_pattern")
    /\ YearSearch(genCall.rule.special_handling["year_pattern"],
                  genCall.extracted_info["episode"])

\* The match extracted a title that is not empty.
TitleGiven ==
    /\ Has(genCall.extracted_info, "title")
    /\ genCall.extracted_info["title"] # None
    /\ ~IsBlank(genCall.extracted_info["title"])

\* "(<episode>)", the title a year gives a match without one
YearTitle == <<"(">> \o genCall.extracted_info["episode"] \o <<")">>

\* C13: a numeric episode that the rule's year_pattern matches is rendered
\* as episode "01"; the title becomes "(<the number>)" when the match had
\* none, and a title the match had is kept; the rendered name carries both.
C13_YearBecomesFirstEpisode ==
    (gpc = "done" /\ EpisodeIsYear) =>
        /\ GenInfo["episode"] = <<"0","1">>
        /\ GenInfo["title"] =
              IF TitleGiven THEN genCall.extracted_info["title"] ELSE YearTitle
        /\ MissingAt = {} =>
              /\ genOut.exc = ""
              /\ Contains(genOut.text, <<"E","0","1">>)
              /\ genCall.rule.output_format \in { TemplateStandard, TemplateSeason } =>
                    Contains(genOut.text, GenInfo["title"])

\* C13's case: episode "2020" under a year pattern and no title: the name
\* says E01 and (2020).
C13_Witness ==
    /\ gpc = "done"
    /\ EpisodeIsYear
    /\ ~TitleGiven
    /\ genCall.extracted_info["episode"] = <<"2","0","2","0">>
    /\ genOut.exc = ""
    /\ Contains(genOut.text, <<"E","0","1">>)
    /\ Contains(genOut.text, <<"(","2","0","2","0",")">>)


(***************************************************************************)
(* FileManager.rename_file                                                 *)
(***************************************************************************)
\* str(n) of a natural number
RECURSIVE Decimal(_)
Decimal(n) ==
    LET d == CHOOSE c \in Digits : DigitValue[c] = n % 10
    IN  IF n < 10 THEN <<d>> ELSE Decimal(n \div 10) \o <<d>>

\* the longest name rename_file takes
MaxRenameLen == 255

\* Path.exists() of directory / name: a file of the directory, or the
\* directory itself and its parent under the names '.' and '..'.
Exists(dir, name) == name \in DOMAIN dir \/ name \in { <<".">>, <<".",".">> }

\* os.rename(old, new) inside one directory: the file takes the new name, and
\* a file that had that name is gone (POSIX).
OsRename(dir, old, new) ==
    [n \in (DOMAIN dir \ {old}) \cup {new} |-> IF n = new THEN dir[old] ELSE dir[n]]

\* The reasons rename_file gives.
ReasonEmptyName == <<"WenJianMingWeiKong">>                \* '文件名为空'
ReasonTooLong(n) ==                                         \* f'文件名过长 ({n} > 255)'
    <<"WenJianMingGuoChang"," ","(">> \o Decimal(n) \o <<" ",">"," ">>
        \o Decimal(MaxRenameLen) \o <<")">>
ReasonIllegalChar(c) == <<"WenJianMingBaoHanFeiFaZiFu",":"," ",c>>
                                                            \* f'文件名包含非法字符: {c}'
ReasonReserved(stem) == <<"WenJianMingShiYongLeBaoLiuMingCheng",":"," ">> \o stem
                                                            \* f'文件名使用了Windows保留名称: {stem}'
ReasonTargetExists == <<"MuBiaoWenJianYiCunZai">>          \* '目标文件已存在'
ReasonLocked == <<"WenJianBeiZhanYongHuoWuQuanXianFangWen">> \* '文件被占用或无权限访问'
ReasonAccessError == <<"WenJianFangWenCuoWu",":"," ">>     \* f'文件访问错误: {e}'
ReasonPermissionError == <<"QuanXianCuoWu",":"," ">>       \* f'权限错误: {e}'
ReasonOsError == <<"XiTongCuoWu",":"," ">>                 \* f'系统错误: {e}'
ReasonOk == <<"ChengGong">>                                 \* '成功'

Refused(reason, dir) == [ok |-> FALSE, reason |-> reason, directory |-> dir]

\* rename_file without the check that the target exists.
rename_file_NoExistsCheck(dir, lck, file_path, new_name, os_error) ==
    LET hits == { k \in 1..Len(IllegalChars) :
                    \E i \in 1..Len(new_name) : new_name[i] = IllegalChars[k] }
        stem == Upper(PathStem(new_name))
    IN  IF new_name = <<>> \/ IsBlank(new_name) THEN Refused(ReasonEmptyName, dir)
        ELSE IF Len(new_name) > MaxRenameLen
        THEN Refused(ReasonTooLong(Len(new_name)), dir)
        ELSE IF hits # {} THEN Refused(ReasonIllegalChar(IllegalChars[SetMin(hits)]), dir)
        ELSE IF stem \in ReservedNames THEN Refused(ReasonReserved(stem), dir)
        ELSE IF file_path \in lck THEN Refused(ReasonLocked, dir)
        ELSE IF file_path \notin DOMAIN dir THEN Refused(ReasonAccessError, dir)
        ELSE IF os_error = "PermissionError" THEN Refused(ReasonPermissionError, dir)
        ELSE IF os_error = "OSError" THEN Refused(ReasonOsError, dir)
        ELSE [ok |-> TRUE, reason |-> ReasonOk,
              directory |-> OsRename(dir, file_path, new_name)]

\* FileManager.rename_file(file_path, new_name) in the directory dir, where
\* the files named in lck are held by others and os.rename fails with
\* os_error ("" when it does not fail): ok, the reason, and the directory after.
rename_file(dir, lck, file_path, new_name, os_error) ==
    LET hits == { k \in 1..Len(IllegalChars) :
                    \E i \in 1..Len(new_name) : new_name[i] = IllegalChars[k] }
        stem == Upper(PathStem(new_name))
    IN  IF new_name = <<>> \/ IsBlank(new_name) THEN Refused(ReasonEmptyName, dir)
        ELSE IF Len(new_name) > MaxRenameLen
        THEN Refused(ReasonTooLong(Len(new_name)), dir)
        ELSE IF hits # {} THEN Refused(ReasonIllegalChar(IllegalChars[SetMin(hits)]), dir)
        ELSE IF stem \in ReservedNames THEN Refused(ReasonReserved(stem), dir)
        ELSE IF Exists(dir, new_name) /\ new_name # file_path
        THEN Refused(ReasonTargetExists, dir)
        ELSE IF file_path \in lck THEN Refused(ReasonLocked, dir)
        ELSE IF file_path \notin DOMAIN dir THEN Refused(ReasonAccessError, dir)
        ELSE IF os_error = "PermissionError" THEN Refused(ReasonPermissionError, dir)
        ELSE IF os_error = "OSError" THEN Refused(ReasonOsError, dir)
        ELSE [ok |-> TRUE, reason |-> ReasonOk,
              directory |-> OsRename(dir, file_path, new_name)]

\* how os.rename can fail
OsErrors == { "", "PermissionError", "OSError" }

FileA == <<"a",".","m","k","v">>
FileB == <<"b",".","m","k","v">>
FileC == <<"c",".","m","k","v">>

\* The directories of the model: files with their identities.
DirectoryChoices ==
    { <<>>, (FileA :> 1), (FileA :> 1) @@ (FileB :> 2),
      (FileA :> 1) @@ (FileB :> 2) @@ (FileC :> 3) }

NewNameChoices ==
    { <<>>, <<" ">>, <<" ","\t">>, Run("a", MaxRenameLen), Run("a", MaxRenameLen + 1),
      <<"a",":","b">>, <<"a","/","b">>, <<"?","<">>, <<"a","\"">>,
      <<"C","O","N">>, <<"c","o","n",".","t","x","t">>, <<"C","O","N",".","a",".","b">>,
      <<".">>, <<".",".">>, FileA, FileB, FileC, <<"A",".","m","k","v">> }

InitRename ==
    /\ directory \in DirectoryChoices
    /\ locked \in SUBSET {FileA}
    /\ rename_log = <<>>
    /\ rnCall \in [file_path : {FileA, FileB}, new_name : NewNameChoices,
                   directory : {directory}]
    /\ rnOut = NotRun
    /\ rpc = "ready"
    /\ CleanIdle /\ MatchIdle /\ GenIdle /\ BatchIdle /\ RestoreIdle

\* FileManager.rename_file(file_path, new_name)
RenameFile ==
    /\ rpc = "ready"
    /\ \E os_error \in OsErrors :
          LET out == rename_file(directory, locked, rnCall.file_path,
                                 rnCall.new_name, os_error)
          IN  /\ directory' = out.directory
              /\ rnOut' = <<out.ok, out.reason>>
    /\ rpc' = "done"
    /\ UNCHANGED <<locked, rename_log, rnCall>>
    /\ UNCHANGED notRename

NextRename == RenameFile

SpecRename == InitRename /\ [][NextRename]_vars

\* The preconditions of a rename, as the call found them.
NameAcceptable(new_name) ==
    /\ new_name # <<>> /\ ~IsBlank(new_name)
    /\ Len(new_name) <= MaxRenameLen
    /\ ~HasIllegal(new_name)
    /\ Upper(PathStem(new_name)) \notin ReservedNames

RenamePreconditions ==
    /\ NameAcceptable(rnCall.new_name)
    /\ ~(Exists(rnCall.directory, rnCall.new_name)
            /\ rnCall.new_name # rnCall.file_path)
    /\ rnCall.file_path \in DOMAIN rnCall.directory
    /\ rnCall.file_path \notin locked

\* C8: rename_file gives the file its new name only when the name is not
\* empty, has at most 255 characters, no illegal character and no reserved
\* stem, the target is not another existing file and the source can be
\* opened; otherwise it returns False with a reason and the directory is as
\* it was; no other file of the directory is ever replaced or lost.
C8_RenameOnlyWhenAllowed ==
    rpc = "done" =>
        /\ rnOut[1] => /\ RenamePreconditions
                       /\ directory = OsRename(rnCall.directory, rnCall.file_path,
                                               rnCall.new_name)
        /\ ~rnOut[1] => directory = rnCall.directory /\ rnOut[2] # <<>>
        /\ ~RenamePreconditions => ~rnOut[1]
        /\ \A n \in DOMAIN rnCall.directory \ {rnCall.file_path} :
              n \in DOMAIN directory /\ directory[n] = rnCall.directory[n]

\* C8's case: every precondition held and the file took a name that no file
\* of the directory had.
C8_Witness ==
    /\ rpc = "done"
    /\ rnOut[1]
    /\ RenamePreconditions
    /\ rnCall.new_name \notin DOMAIN rnCall.directory
    /\ directory # rnCall.directory


(***************************************************************************)
(* FileManager.log_rename and the restore from the log                     *)
(***************************************************************************)
StatusSuccess == <<"ChengGong">>        \* '成功'
StatusFailed == <<"ShiBai">>            \* '失败'
StatusSkipped == <<"TiaoGuo">>          \* '跳过'
ReasonNone == <<"Wu">>                  \* '无'

\* FileManager.log_rename: the log with the record appended; the log as it
\* was when the log file cannot be read or written (written is False). The
\* record's timestamp and directory are left out: nothing reads them.
log_rename(log, old_name, new_name, rule_name, status, reason, written) ==
    IF written
    THEN Append(log, [old_name |-> old_name, new_name |-> new_name,
                      rule_name |-> rule_name, status |-> status,
                      reason |-> IF reason = None \/ reason = <<>>
                                 THEN ReasonNone ELSE reason])
    ELSE log

\* restore_single_from_log without the check of the old name.
restore_single_from_log_NoOldCheck(dir, log_entry, os_error) ==
    LET old_name == log_entry.old_name
        new_name == log_entry.new_name
    IN  IF old_name \in {None, <<>>} \/ new_name \in {None, <<>>}
        THEN [ok |-> FALSE, directory |-> dir]
        ELSE IF ~Exists(dir, new_name) THEN [ok |-> FALSE, directory |-> dir]
        ELSE IF os_error # "" THEN [ok |-> FALSE, directory |-> dir]
        ELSE [ok |-> TRUE, directory |-> OsRename(dir, new_name, old_name)]

\* FileManager.restore_single_from_log(directory, log_entry): whether the
\* name was restored, and the directory after.
restore_single_from_log(dir, log_entry, os_error) ==
    LET old_name == log_entry.old_name
        new_name == log_entry.new_name
    IN  IF old_name \in {None, <<>>} \/ new_name \in {None, <<>>}
        THEN [ok |-> FALSE, directory |-> dir]
        ELSE IF ~Exists(dir, new_name) THEN [ok |-> FALSE, directory |-> dir]
        ELSE IF Exists(dir, old_name) /\ old_name # new_name
        THEN [ok |-> FALSE, directory |-> dir]
        ELSE IF os_error # "" THEN [ok |-> FALSE, directory |-> dir]
        ELSE [ok |-> TRUE, directory |-> OsRename(dir, new_name, old_name)]

\* successful_entries of restore_all_from_log
successful_entries == SelectSeq(rename_log, LAMBDA entry : entry.status = StatusSuccess)

StatusRestored == <<"HuiFuChengGong">>              \* '恢复成功'
StatusNotRestored == <<"HuiFuShiBai">>              \* '恢复失败'
ReasonRestored == <<"WenJianMingYiHuiFu">>          \* '文件名已恢复'
ReasonNotRestored == <<"WenJianBuCunZaiHuoYuanWenJianYiCunZai">>
                                                    \* '文件不存在或原文件已存在'

\* the longest rename log of the model
MaxLog == 2

LogRecord(old_name, new_name, status) ==
    [old_name |-> old_name, new_name |-> new_name, rule_name |-> <<"MyRule">>,
     status |-> status, reason |-> ReasonNone]

\* Records as execute_rename writes them: a rename, a file that kept its
\* name, a refused rename and a skipped one.
LogRecordChoices ==
    { LogRecord(FileA, FileB, StatusSuccess), LogRecord(FileA, FileC, StatusSuccess),
      LogRecord(FileB, FileC, StatusSuccess), LogRecord(FileA, FileA, StatusSuccess),
      LogRecord(FileA, FileB, StatusFailed), LogRecord(FileB, FileC, StatusSkipped) }

LogChoices ==
    UNION { [1..n -> LogRecordChoices] : n \in 0..MaxLog }

RestoreDirectoryChoices ==
    { [n \in names |-> CHOOSE k \in 1..3 : <<FileA, FileB, FileC>>[k] = n] :
        names \in SUBSET {FileA, FileB, FileC} }

\* Whether the renames that the records of a log from record k on report as
\* done can have been done in a directory one after the other: each found
\* its file and a free name, as rename_file demands.
RECURSIVE Replayable(_, _, _)
Replayable(dir, log, k) ==
    IF k > Len(log) THEN TRUE
    ELSE IF log[k].status # StatusSuccess THEN Replayable(dir, log, k + 1)
    ELSE /\ log[k].old_name \in DOMAIN dir
         /\ \/ log[k].new_name = log[k].old_name
            \/ log[k].new_name \notin DOMAIN dir
         /\ Replayable(OsRename(dir, log[k].old_name, log[k].new_name), log, k + 1)

\* The directory those renames leave.
RECURSIVE Replay(_, _, _)
Replay(dir, log, k) ==
    IF k > Len(log) THEN dir
    ELSE IF log[k].status # StatusSuccess THEN Replay(dir, log, k + 1)
    ELSE Replay(OsRename(dir, log[k].old_name, log[k].new_name), log, k + 1)

\* The directories a log is met with: any directory, and the one that the
\* renames of the log have made.
DirectoriesOf(log) ==
    RestoreDirectoryChoices
    \cup { Replay(d, log, 1) : d \in { x \in RestoreDirectoryChoices : Replayable(x, log, 1) } }

InitRestore ==
    /\ rename_log \in LogChoices
    /\ directory \in DirectoriesOf(rename_log)
    /\ found_directory = directory
    /\ locked = {}
    /\ ri = 0
    /\ restored = 0
    /\ not_restored = 0
    /\ restore_results = <<>>
    /\ rspc = "ready"
    /\ CleanIdle /\ MatchIdle /\ GenIdle /\ RenameIdle /\ BatchIdle

\* restore_all_from_log up to its loop: an empty log returns (0, 0, []).
RestoreBegin ==
    /\ rspc = "ready"
    /\ rspc' = IF rename_log = <<>> THEN "done" ELSE "loop"
    /\ UNCHANGED <<ri, restored, not_restored, restore_results, found_directory>>
    /\ UNCHANGED fileVars
    /\ UNCHANGED notRestore

\* One round of the loop over successful_entries.
RestoreEntry ==
    /\ rspc = "loop"
    /\ ri < Len(successful_entries)
    /\ \E os_error \in OsErrors :
          LET entry == successful_entries[ri + 1]
              out   == restore_single_from_log(directory, entry, os_error)
          IN  /\ directory' = out.directory
              /\ restored' = IF out.ok THEN restored + 1 ELSE restored
              /\ not_restored' = IF out.ok THEN not_restored ELSE not_restored + 1
              /\ restore_results' =
                    Append(restore_results,
                           [old_name |-> entry.old_name, new_name |-> entry.new_name,
                            status |-> IF out.ok THEN StatusRestored
                                       ELSE StatusNotRestored,
                            reason |-> IF out.ok THEN ReasonRestored
                                       ELSE ReasonNotRestored])
    /\ ri' = ri + 1
    /\ UNCHANGED <<locked, rename_log, found_directory, rspc>>
    /\ UNCHANGED notRestore

\* The loop is over: return success_count, error_count, detailed_results.
RestoreEnd ==
    /\ rspc = "loop"
    /\ ri = Len(successful_entries)
    /\ rspc' = "done"
    /\ UNCHANGED <<ri, restored, not_restored, restore_results, found_directory>>
    /\ UNCHANGED fileVars
    /\ UNCHANGED notRestore

NextRestore == RestoreBegin \/ RestoreEntry \/ RestoreEnd

SpecRestore == InitRestore /\ [][NextRestore]_vars

\* A round of the restore loop, and the record it handles.
RestoreStep == rspc = "loop" /\ ri' = ri + 1

\* C9 as stated: each record with success status is renamed back exactly
\* when its new name exists and its old name does not, any other record
\* of them gives no rename and one failure, and the two counts add up to the
\* number of records with success status.
C9_RestoreIffOldAbsent ==
    /\ [][RestoreStep =>
            LET entry == successful_entries[ri + 1]
                ready == /\ Exists(directory, entry.new_name)
                         /\ ~Exists(directory, entry.old_name)
            IN  /\ ~ready => /\ directory' = directory
                             /\ not_restored' = not_restored + 1
                             /\ restored' = restored
                /\ ready => /\ directory' = OsRename(directory, entry.new_name,
                                                     entry.old_name)
                            /\ restored' = restored + 1
                            /\ not_restored' = not_restored]_vars
    /\ [](rspc = "done" => restored + not_restored = Len(successful_entries))

\* C9, amended: only records with success status are handled, in log order,
\* one result each. A record is renamed back, and counted restored, only
\* when its new name exists and its old name does not exist or is the same
\* name; it then is renamed back unless the operating system refuses the
\* rename. A record that is not renamed back leaves the directory as it was
\* and counts one failure. The two counts add up to the number of records
\* with success status.
C9_RestoreWhenAble ==
    /\ [][RestoreStep =>
            LET entry == successful_entries[ri + 1]
                able  == /\ Exists(directory, entry.new_name)
                         /\ \/ ~Exists(directory, entry.old_name)
                            \/ entry.old_name = entry.new_name
                back  == OsRename(directory, entry.new_name, entry.old_name)
            IN  /\ \/ /\ able
                      /\ directory' = back
                      /\ restored' = restored + 1
                      /\ not_restored' = not_restored
                   \/ /\ directory' = directory
                      /\ restored' = restored
                      /\ not_restored' = not_restored + 1
                /\ restore_results' =
                      Append(restore_results,
                             [old_name |-> entry.old_name, new_name |-> entry.new_name,
                              status |-> IF restored' > restored THEN StatusRestored
                                         ELSE StatusNotRestored,
                              reason |-> IF restored' > restored THEN ReasonRestored
                                         ELSE ReasonNotRestored])]_vars
    /\ [](rspc = "done" =>
            /\ restored + not_restored = Len(successful_entries)
            /\ Len(restore_results) = Len(successful_entries))

\* C9's case: the log holds a.mkv -> b.mkv with success status next to a
\* record of another status, which was left alone; b.mkv was renamed back.
C9_Witness ==
    /\ rspc = "done"
    /\ Len(successful_entries) < Len(rename_log)
    /\ \E k \in 1..Len(restore_results) :
          /\ restore_results[k].old_name = FileA
          /\ restore_results[k].new_name = FileB
          /\ restore_results[k].status = StatusRestored
    /\ FileA \in DOMAIN directory /\ FileB \notin DOMAIN directory


(***************************************************************************)
(* MediaRenamer.match_filename_with_rule and the two execute_rename        *)
(***************************************************************************)
NoMatchInfo == <<"WuPiPei">>                    \* '无匹配'
ReasonRenamed == <<"ChongMingMingChengGong">>   \* '重命名成功'
ReasonNoMatch == <<"GuiZePiPeiShiBai">>         \* '规则匹配失败'
ReasonFilesystem == <<"WenJianXiTongCuoWu">>    \* '文件系统错误'
ReasonException(exc) == <<"YiChang",":"," ",exc>>   \* f'异常: {str(e)}'

\* What rule.match(filename) gives: None, or the dict of the groups.
NoMatch == <<>>
Matched(groups) == <<groups>>

\* The extension match_filename_with_rule keeps: '.tc.ass' or Path.suffix.
ExtensionOf(fname) ==
    IF EndsWith(fname, <<".","t","c",".","a","s","s">>)
    THEN <<".","t","c",".","a","s","s">>
    ELSE PathSuffix(fname)

\* match_result with custom_title as its series, when there is one
WithCustomTitle(groups, custom_title) ==
    IF custom_title # None /\ custom_title # <<>>
    THEN Put(groups, "series", custom_title)
    ELSE groups

\* The try block of match_filename_with_rule once generate_output gave out:
\* the cleaned name, or the exception that leaves.
MatchedResult(fname, groups, out) ==
    IF out.exc # ""
    THEN [exc |-> out.exc, success |-> FALSE, new_filename |-> fname,
          match_info |-> NoMatchInfo]
    ELSE [exc |-> "", success |-> TRUE, new_filename |-> clean_filename(out.text),
          match_info |-> Matched(groups)]

\* match_filename_with_rule for a file the rule matched with groups
MatchedWith(rule, cfg, fname, groups, file_path, custom_season) ==
    MatchedResult(fname, groups,
                  generate_output(rule, cfg, groups, ExtensionOf(fname), file_path,
                                  custom_season, FALSE))

\* MediaRenamer.match_filename_with_rule, where match_result is what
\* rule.match(filename) gives: (success, new_filename, match_info), or the
\* exception that leaves it. match_info stands for str(match_result).
match_filename_with_rule(rule, cfg, fname, match_result, custom_title, file_path, custom_season) ==
    IF match_result = NoMatch \/ DOMAIN match_result[1] = {}
    THEN [exc |-> "", success |-> FALSE, new_filename |-> fname,
          match_info |-> NoMatchInfo]
    ELSE MatchedWith(rule, cfg, fname, WithCustomTitle(match_result[1], custom_title),
                     file_path, custom_season)

\* the path of a file of the directory, in parts
PathOf(fname) == << <<"/">>, <<"d">>, fname >>

\* What one round of a batch loop leaves: the directory and the log after
\* it, the result it appended (or none, when an exception left the loop),
\* what it added to the two counters, and what rename_file returned if it
\* was called.
Round(dir, log, entry, ok, err, rn) ==
    [directory |-> dir, rename_log |-> log, entry |-> entry,
     success |-> ok, error |-> err, renamed |-> rn, escaped |-> ""]

Escaped(dir, log, exc) ==
    [directory |-> dir, rename_log |-> log, entry |-> <<>>,
     success |-> 0, error |-> 0, renamed |-> <<>>, escaped |-> exc]

CoreEntry(fname, new_name, status, reason, match_info) ==
    [file_path |-> PathOf(fname), original_name |-> fname,
     new_name |-> new_name, status |-> status, reason |-> reason,
     match_info |-> match_info]

\* MediaRenamer.execute_rename after rename_file returned rn: the two
\* branches of 'if success'.
execute_rename_renamed(log, rule, fname, written, m, rn) ==
    IF rn.ok
    THEN Round(rn.directory,
               log_rename(log, fname, m.new_filename, rule.name, StatusSuccess,
                          ReasonRenamed, written),
               CoreEntry(fname, m.new_filename, StatusSuccess, ReasonRenamed,
                         m.match_info),
               1, 0, <<rn.ok, rn.reason>>)
    ELSE Round(rn.directory,
               log_rename(log, fname, m.new_filename, rule.name, StatusFailed,
                          rn.reason, written),
               CoreEntry(fname, m.new_filename, StatusFailed, rn.reason, m.match_info),
               0, 1, <<rn.ok, rn.reason>>)

\* execute_rename_matched without the except clause of the loop.
execute_rename_matched_NoCatch(dir, lck, log, rule, fname, os_error, written, m) ==
    IF m.exc # "" THEN Escaped(dir, log, m.exc)
    ELSE IF ~m.success
    THEN Round(dir,
               log_rename(log, fname, fname, rule.name, StatusFailed, ReasonNoMatch,
                          written),
               CoreEntry(fname, fname, StatusFailed, ReasonNoMatch, m.match_info),
               0, 1, <<>>)
    ELSE IF Exists(dir, m.new_filename) /\ m.new_filename # fname
    THEN Round(dir, log,
               CoreEntry(fname, m.new_filename, StatusSkipped, ReasonTargetExists,
                         m.match_info),
               0, 1, <<>>)
    ELSE execute_rename_renamed(log, rule, fname, written, m,
                                rename_file(dir, lck, fname, m.new_filename, os_error))

\* MediaRenamer.execute_rename after match_filename_with_rule gave m or
\* raised m.exc: the except clause, the no-match branch, the skip of an
\* existing target, and the rename.
execute_rename_matched(dir, lck, log, rule, fname, os_error, written, m) ==
    IF m.exc # ""
    THEN Round(dir,
               log_rename(log, fname, fname, rule.name, StatusFailed,
                          ReasonException(m.exc), written),
               CoreEntry(fname, fname, StatusFailed, ReasonException(m.exc),
                         ReasonNone),
               0, 1, <<>>)
    ELSE IF ~m.success
    THEN Round(dir,
               log_rename(log, fname, fname, rule.name, StatusFailed, ReasonNoMatch,
                          written),
               CoreEntry(fname, fname, StatusFailed, ReasonNoMatch, m.match_info),
               0, 1, <<>>)
    ELSE IF Exists(dir, m.new_filename) /\ m.new_filename # fname
    THEN Round(dir, log,
               CoreEntry(fname, m.new_filename, StatusSkipped, ReasonTargetExists,
                         m.match_info),
               0, 1, <<>>)
    ELSE execute_rename_renamed(log, rule, fname, written, m,
                                rename_file(dir, lck, fname, m.new_filename, os_error))

\* One round of the loop of MediaRenamer.execute_rename, for the file fname
\* of the list.
execute_rename_round(dir, lck, log, call, fname, os_error, written) ==
    execute_rename_matched(dir, lck, log, call.rule, fname, os_error, written,
        match_filename_with_rule(call.rule, call.cfg, fname, call.found[fname],
                                 call.custom_title, PathOf(fname), call.custom_season))

LogicEntry(fname, new_name, status, reason) ==
    [original_name |-> fname, new_name |-> new_name, status |-> status,
     reason |-> reason]

\* bool(x) of a tuple
Truthy(tuple) == Len(tuple) > 0

\* FileProcessingLogic.execute_rename at 'elif rename_file(...)': the value
\* of rename_file, the pair (ok, reason), is itself the condition.
logic_execute_rename_renamed(log, rule, fname, written, m, rn) ==
    IF Truthy(<<rn.ok, rn.reason>>)
    THEN Round(rn.directory,
               log_rename(log, fname, m.new_filename, rule.name, StatusSuccess,
                          ReasonRenamed, written),
               LogicEntry(fname, m.new_filename, StatusSuccess, ReasonRenamed),
               1, 0, <<rn.ok, rn.reason>>)
    ELSE Round(rn.directory,
               log_rename(log, fname, m.new_filename, rule.name, StatusFailed,
                          ReasonFilesystem, written),
               LogicEntry(fname, m.new_filename, StatusFailed, ReasonFilesystem),
               0, 1, <<rn.ok, rn.reason>>)

\* FileProcessingLogic.execute_rename after match_filename_with_rule gave m
\* or raised m.exc.
logic_execute_rename_matched(dir, lck, log, rule, fname, os_error, written, m) ==
    IF m.exc # ""
    THEN Round(dir,
               log_rename(log, fname, fname, rule.name, StatusFailed,
                          ReasonException(m.exc), written),
               LogicEntry(fname, fname, StatusFailed, ReasonException(m.exc)),
               0, 1, <<>>)
    ELSE IF ~m.success
    THEN Round(dir,
               log_rename(log, fname, fname, rule.name, StatusFailed, ReasonNoMatch,
                          written),
               LogicEntry(fname, fname, StatusFailed, ReasonNoMatch),
               0, 1, <<>>)
    ELSE IF Exists(dir, m.new_filename) /\ m.new_filename # fname
    THEN Round(dir,
               log_rename(log, fname, m.new_filename, rule.name, StatusSkipped,
                          ReasonTargetExists, written),
               LogicEntry(fname, m.new_filename, StatusSkipped, ReasonTargetExists),
               0, 0, <<>>)
    ELSE logic_execute_rename_renamed(log, rule, fname, written, m,
                                      rename_file(dir, lck, fname, m.new_filename,
                                                  os_error))

\* One round of the loop of FileProcessingLogic.execute_rename.
logic_execute_rename_round(dir, lck, log, call, fname, os_error, written) ==
    logic_execute_rename_matched(dir, lck, log, call.applied_rules[fname], fname,
                                 os_error, written,
        match_filename_with_rule(call.applied_rules[fname], call.cfg, fname,
                                 call.found[fname], call.custom_title, PathOf(fname),
                                 None))

\* the longest file list of the model
MaxFiles == 2

\* '{}': a template with a positional field
TemplatePositional == << [pos |-> 0] >>

\* '{series} S01E{episode:0>2}'
TemplateSeasonEpisode ==
    << Field("series", 0), Lit(<<" ","S","0","1","E">>), Field("episode", 2) >>

BatchRuleChoices ==
    [name : { <<"MyRule">> },
     output_format : { TemplateNoSeason, TemplatePositional, TemplateSeasonEpisode,
                       TemplateQuality },
     special_handling : { EmptyDict }]

Episode(n) == Matched([series |-> <<"A","b">>, episode |-> n])

\* 'Ab E05.mkv', the name of episode 5 under TemplateNoSeason
FileE05 == <<"A","b"," ","E","0","5",".","m","k","v">>

\* what rule.match gives for each file name
BatchFoundChoices ==
    { (FileA :> a) @@ (FileB :> b) @@ (FileC :> Episode(<<"6">>)) :
        a \in { NoMatch, Episode(<<"5">>) },
        b \in { Episode(<<"5">>), Episode(<<"7">>) } }

BatchDirectoryChoices ==
    { (FileA :> 1) @@ (FileB :> 2) @@ (FileC :> 3),
      (FileA :> 1) @@ (FileB :> 2),
      (FileA :> 1) @@ (FileB :> 2) @@ (FileC :> 3) @@ (FileE05 :> 4) }

\* the lists of distinct files of at most MaxFiles files
FileLists ==
    { l \in UNION { [1..n -> {FileA, FileB, FileC}] : n \in 0..MaxFiles } :
        \A i, j \in 1..Len(l) : i # j => l[i] # l[j] }

\* The calls of MediaRenamer.execute_rename(file_list, rule, custom_title,
\* custom_season): the rule is applied to every file of the list.
CoreCalls ==
    [which : { "MediaRenamer" }, file_list : FileLists, rule : BatchRuleChoices,
     cfg : { ConfigDefault }, found : BatchFoundChoices, custom_title : { None },
     custom_season : { None, BoundMethod }, files_to_rename : { <<>> }]

\* a second rule of the list, applied to one file only
OtherRule ==
    [name |-> <<"OtherRule">>, output_format |-> TemplateSeasonEpisode,
     special_handling |-> EmptyDict]

\* self.applied_rules, file name to rule: empty, one file, every file under
\* the same rule, or two files under different rules
AppliedRulesChoices ==
    { EmptyDict }
        \cup { (FileB :> r) : r \in BatchRuleChoices }
        \cup { [f \in {FileA, FileB, FileC} |-> r] : r \in BatchRuleChoices }
        \cup { (FileA :> r) @@ (FileB :> OtherRule) : r \in BatchRuleChoices }

\* The calls of FileProcessingLogic.execute_rename(custom_title) with
\* self.file_list and self.applied_rules; custom_season is the one
\* preview_rename is called with.
LogicCalls ==
    [which : { "FileProcessingLogic" }, file_list : FileLists,
     cfg : { ConfigDefault }, found : BatchFoundChoices, custom_title : { None },
     custom_season : { None, <<"3">> },
     applied_rules : AppliedRulesChoices,
     files_to_rename : { <<>> }]

\* The files the loop goes over: file_list, and in FileProcessingLogic
\* those of file_list that applied_rules holds a rule for.
FilesToRename(call) ==
    IF call.which = "FileProcessingLogic"
    THEN SelectSeq(call.file_list, LAMBDA f : f \in DOMAIN call.applied_rules)
    ELSE call.file_list

\* files_to_rename as the call holds it once the loop has begun
files_to_rename == batchCall.files_to_rename

InitBatch ==
    /\ directory \in BatchDirectoryChoices
    /\ locked \in SUBSET {FileB}
    /\ rename_log = <<>>
    /\ batchCall \in CoreCalls \cup LogicCalls
    /\ bi = 0
    /\ success_count = 0
    /\ error_count = 0
    /\ detailed_results = <<>>
    /\ preview_results = [state |-> "not run"]
    /\ bpc = "ready"
    /\ CleanIdle /\ MatchIdle /\ GenIdle /\ RenameIdle /\ RestoreIdle

\* The three raises of ValueError at the head of
\* FileProcessingLogic.execute_rename: no file, no applied rule, or no file
\* with an applied rule.
RaisesValueError(call) ==
    /\ call.which = "FileProcessingLogic"
    /\ \/ call.file_list = <<>>
       \/ DOMAIN call.applied_rules = {}
       \/ FilesToRename(call) = <<>>

\* BatchEnd without self.applied_rules.clear()
BatchEnd_KeepsRules ==
    /\ bpc = "loop"
    /\ bi = Len(batchCall.files_to_rename)
    /\ bpc' = "done"
    /\ UNCHANGED <<batchCall, bi, success_count, error_count, detailed_results, preview_results>>
    /\ UNCHANGED <<fileVars, rnOut>>
    /\ UNCHANGED notBatch

\* execute_rename up to its loop.
BatchBegin ==
    /\ bpc = "ready"
    /\ bpc' = IF RaisesValueError(batchCall) THEN "raised" ELSE "loop"
    /\ batchCall' = [batchCall EXCEPT !.files_to_rename = FilesToRename(batchCall)]
    /\ UNCHANGED <<bi, success_count, error_count, detailed_results, preview_results>>
    /\ UNCHANGED <<fileVars, rnOut>>
    /\ UNCHANGED notBatch

\* preview_results.append({...}) for a file with an applied rule, from what
\* match_filename_with_rule gave; exc is the exception that leaves the preview.
PreviewEntry(fname, m) ==
    [filename |-> fname, new_filename |-> m.new_filename, exc |-> m.exc]

\* The entry of FileProcessingLogic.preview_rename for one file: the new
\* name of MediaRenamer.preview_rename under the applied rule, the file's
\* own name without one.
logic_preview_entry(call, fname) ==
    IF fname \in DOMAIN call.applied_rules
    THEN PreviewEntry(fname,
             match_filename_with_rule(call.applied_rules[fname], call.cfg, fname,
                                      call.found[fname], call.custom_title,
                                      PathOf(fname), call.custom_season))
    ELSE [filename |-> fname, new_filename |-> fname, exc |-> ""]

\* what preview_rename leaves with the entries of its loop
PreviewReturn(entries) ==
    IF \E k \in 1..Len(entries) : entries[k].exc # ""
    THEN [state |-> "raised"]
    ELSE [state |-> "returned", results |-> entries]

\* FileProcessingLogic.preview_rename(custom_title, custom_season)
logic_preview_rename(call) ==
    PreviewReturn([k \in 1..Len(call.file_list) |->
                      logic_preview_entry(call, call.file_list[k])])

\* self.logic.preview_rename(custom_title, custom_season), before the batch
LogicPreviewRename ==
    /\ bpc = "ready"
    /\ batchCall.which = "FileProcessingLogic"
    /\ preview_results.state = "not run"
    /\ preview_results' = logic_preview_rename(batchCall)
    /\ UNCHANGED <<batchCall, bi, success_count, error_count, detailed_results, bpc>>
    /\ UNCHANGED <<fileVars, rnOut>>
    /\ UNCHANGED notBatch

\* The state after a round of a loop that left out.
AfterRound(out) ==
    /\ directory' = out.directory
    /\ rename_log' = out.rename_log
    /\ rnOut' = out.renamed
    /\ IF out.escaped # ""
       THEN /\ bpc' = "raised"
            /\ UNCHANGED <<bi, success_count, error_count, detailed_results, preview_results>>
       ELSE /\ bpc' = bpc
            /\ bi' = bi + 1
            /\ success_count' = success_count + out.success
            /\ error_count' = error_count + out.error
            /\ detailed_results' = Append(detailed_results, out.entry)
    /\ UNCHANGED <<locked, batchCall, preview_results>>
    /\ UNCHANGED notBatch

\* MediaRenamer.execute_rename: one round of its loop.
ExecuteRenameRound ==
    /\ bpc = "loop"
    /\ batchCall.which = "MediaRenamer"
    /\ bi < Len(files_to_rename)
    /\ \E os_error \in OsErrors, written \in BOOLEAN :
          AfterRound(execute_rename_round(directory, locked, rename_log, batchCall,
                                          files_to_rename[bi + 1], os_error, written))

\* FileProcessingLogic.execute_rename: one round of its loop.
LogicExecuteRenameRound ==
    /\ bpc = "loop"
    /\ batchCall.which = "FileProcessingLogic"
    /\ bi < Len(files_to_rename)
    /\ \E os_error \in OsErrors, written \in BOOLEAN :
          AfterRound(logic_execute_rename_round(directory, locked, rename_log,
                                                batchCall, files_to_rename[bi + 1],
                                                os_error, written))

\* After the loop: the counts and the results are returned;
\* FileProcessingLogic clears applied_rules first.
BatchEnd ==
    /\ bpc = "loop"
    /\ bi = Len(files_to_rename)
    /\ bpc' = "done"
    /\ batchCall' = IF batchCall.which = "FileProcessingLogic"
                    THEN [batchCall EXCEPT !.applied_rules = EmptyDict]
                    ELSE batchCall
    /\ UNCHANGED <<bi, success_count, error_count, detailed_results, preview_results>>
    /\ UNCHANGED <<fileVars, rnOut>>
    /\ UNCHANGED notBatch

\* self.logic.execute_rename(custom_title) once more after it returned,
\* no rule applied in between: the head of a new call, whose locals are new.
LogicExecuteRenameAgain ==
    /\ bpc = "done"
    /\ batchCall.which = "FileProcessingLogic"
    /\ bpc' = IF RaisesValueError(batchCall) THEN "raised" ELSE "loop"
    /\ batchCall' = [batchCall EXCEPT !.files_to_rename = FilesToRename(batchCall)]
    /\ bi' = 0
    /\ success_count' = 0
    /\ error_count' = 0
    /\ detailed_results' = <<>>
    /\ UNCHANGED preview_results
    /\ UNCHANGED <<fileVars, rnOut>>
    /\ UNCHANGED notBatch

NextBatch ==
    BatchBegin \/ LogicPreviewRename \/ ExecuteRenameRound \/ LogicExecuteRenameRound
        \/ BatchEnd \/ LogicExecuteRenameAgain

SpecBatch == InitBatch /\ [][NextBatch]_vars

\* C6: a batch goes through its whole list: after every round there is one
\* result for each file handled so far, in list order; the loop goes over
\* the files of the call; the batch ends only after the last file;
\* and nothing is raised except FileProcessingLogic's refusal, before the
\* first file, of a batch without a file to rename.
C6_BatchRunsToEnd ==
    bpc # "idle" =>
        /\ Len(detailed_results) = bi
        /\ \A k \in 1..bi : detailed_results[k].original_name = files_to_rename[k]
        /\ bpc = "loop" => /\ files_to_rename = FilesToRename(batchCall)
                           /\ bi <= Len(files_to_rename)
        /\ bpc = "done" => bi = Len(files_to_rename)
        /\ bpc = "raised" => /\ batchCall.which = "FileProcessingLogic"
                             /\ bi = 0
                             /\ FilesToRename(batchCall) = <<>>

\* C6's case: the first file of a list of two raised an exception inside
\* match_filename_with_rule, and the second one has its result too.
C6_Witness ==
    /\ bpc = "done"
    /\ bi = 2
    /\ detailed_results[1].reason = ReasonException("IndexError")
    /\ detailed_results[2].original_name = files_to_rename[2]

\* C7: in both execute_rename, a file whose rename_file returned (False,
\* reason) gets a result with the failure status and that reason, adds one to
\* the failure count and none to the success count, and gets no log record
\* with the success status.
C7_RefusedRenameIsFailure ==
    [][(bpc = "loop" /\ bi' = bi + 1 /\ Len(rnOut') = 2 /\ ~rnOut'[1]) =>
          /\ detailed_results'[bi'].status = StatusFailed
          /\ detailed_results'[bi'].reason = rnOut'[2]
          /\ error_count' = error_count + 1
          /\ success_count' = success_count
          /\ \/ rename_log' = rename_log
             \/ rename_log'[Len(rename_log')].status # StatusSuccess]_vars


(***************************************************************************)
(* Calls of a RegexRule on its own: match, extract_parent_info, and the    *)
(* rule's way to a file and back.  genCall holds the method and its        *)
(* arguments, genOut what it returned.                                     *)
(***************************************************************************)
\* what a pattern with two capture groups can find: a group that took no
\* part in the match is None, one that matched no character is ''
RuleFoundChoices ==
    FoundChoices \cup { << <<"A">>, <<>> >>, << <<>>, None >> }

MatchCalls ==
    [method : {"match"}, rule : RuleChoices, found : RuleFoundChoices]

\* Optional[Dict]: None, or the dict
OptionalDict(result) == IF result = None THEN NoMatch ELSE Matched(result)

\* rule.match(filename)
RuleMatch ==
    /\ gpc = "ready"
    /\ genCall.method = "match"
    /\ genOut' = OptionalDict(Match(genCall.rule, genCall.found))
    /\ gpc' = "matched"
    /\ UNCHANGED genCall
    /\ UNCHANGED notGen

\* the deepest folder nesting of a path handed to extract_parent_info
MaxFolders == 2

FolderChoices ==
    { <<"S","h">>, <<"S","0","2">>, <<"S","e","a","s","o","n"," ","4">>,
      <<"Di","5","Ji">>, <<"x","s","1","2","3">> }

\* '' and '/<folder>/.../f.mkv' with at most MaxFolders folders, in parts
ParentPathChoices ==
    { <<>> } \cup
    { << <<"/">> >> \o p \o << <<"f",".","m","k","v">> >> :
        p \in UNION { [1..n -> FolderChoices] : n \in 0..MaxFolders } }

ParentCalls ==
    [method : {"extract_parent_info"}, cfg : ConfigChoices,
     file_path : ParentPathChoices]

\* rule.extract_parent_info(file_path)
ExtractParentInfo ==
    /\ gpc = "ready"
    /\ genCall.method = "extract_parent_info"
    /\ genOut' = extract_parent_info(genCall.cfg, genCall.file_path)
    /\ gpc' = "extracted"
    /\ UNCHANGED genCall
    /\ UNCHANGED notGen

\* RegexRule.to_dict: the document save_rule writes
to_dict(rule) ==
    [name |-> rule.name, pattern |-> rule.pattern, groups |-> rule.groups,
     output_format |-> rule.output_format]

\* data.get('special_handling', {})
GetSpecialHandling(data) ==
    IF Has(data, "special_handling") THEN data["special_handling"] ELSE EmptyDict

\* RegexRule.from_dict, with __init__'s special_handling or {}
from_dict(data) ==
    [name |-> data["name"], pattern |-> data["pattern"], groups |-> data["groups"],
     output_format |-> data["output_format"],
     special_handling |-> GetSpecialHandling(data)]

\* the patterns of the rules that are saved, by name
PatternChoices == { "EpisodePattern", "NumberPattern" }

PersistRuleChoices ==
    [name : RuleNameChoices, pattern : PatternChoices, groups : GroupChoices,
     output_format : TemplateChoices, special_handling : SpecialHandlingChoices]

PersistCalls == [method : {"save_rule"}, rule : PersistRuleChoices]

\* RuleFileManager.save_rule(rule): json.dump(rule.to_dict(), f) into the
\* file of the rule's name; genOut is the document of that file.
SaveRule ==
    /\ gpc = "ready"
    /\ genCall.method = "save_rule"
    /\ genOut' = to_dict(genCall.rule)
    /\ gpc' = "saved"
    /\ UNCHANGED genCall
    /\ UNCHANGED notGen

\* RuleFileManager.load_all_rules() on the directory with that one file:
\* RegexRule.from_dict(json.load(f)); genOut becomes the rule loaded.
LoadAllRules ==
    /\ gpc = "saved"
    /\ genOut' = from_dict(genOut)
    /\ gpc' = "loaded"
    /\ UNCHANGED genCall
    /\ UNCHANGED notGen

InitRule ==
    /\ genCall \in MatchCalls \cup ParentCalls \cup PersistCalls
    /\ genOut = NotRun
    /\ gpc = "ready"
    /\ CleanIdle /\ MatchIdle /\ NoFileWork

NextRule == RuleMatch \/ ExtractParentInfo \/ SaveRule \/ LoadAllRules

SpecRule == InitRule /\ [][NextRule]_vars

\* C11: a result of RegexRule.match has the declared fields, and each of
\* them is a string, never None.
C11_FieldsNeverNull ==
    (gpc = "matched" /\ genOut # NoMatch) =>
        /\ DOMAIN genOut[1] = DOMAIN genCall.rule.groups
        /\ \A g \in DOMAIN genOut[1] : genOut[1][g] # None


\* The parts of the call's path that a season pattern matches.
SeasonBearing ==
    { i \in 1..Len(genCall.file_path) :
        SeasonOfPart(genCall.cfg.season_patterns, genCall.file_path[i], 1) # None }

\* C12: with the recognition switched on, the season is that of the
\* rightmost part of the path a season pattern matches, padded to two
\* digits, and the series name is the part right before that same part, if
\* there is one; a path without such a part gives neither.
C12_SeasonAndSeriesFromSamePart ==
    (/\ gpc = "extracted"
     /\ genCall.cfg.enabled
     /\ genCall.cfg.enable_season_recognition
     /\ genCall.cfg.enable_series_recognition) =>
        IF SeasonBearing = {} THEN DOMAIN genOut = {}
        ELSE /\ Has(genOut, "season")
             /\ genOut["season"] =
                   ZFill(SeasonOfPart(genCall.cfg.season_patterns,
                                      genCall.file_path[SetMax(SeasonBearing)], 1), 2)
             /\ IF SetMax(SeasonBearing) > 1
                THEN /\ Has(genOut, "series_name")
                     /\ genOut["series_name"] =
                           genCall.file_path[SetMax(SeasonBearing) - 1]
                ELSE ~Has(genOut, "series_name")


\* Two dicts with the same keys and the same value under each key.
SameDict(a, b) == DOMAIN a = DOMAIN b /\ \A k \in DOMAIN a : a[k] = b[k]

\* C19: a rule saved and loaded back is the rule that was saved, in name,
\* pattern, groups, output_format and special_handling, and renders every
\* match as the saved rule does.
C19_RoundTrip ==
    gpc = "loaded" =>
        /\ genOut.name = genCall.rule.name
        /\ genOut.pattern = genCall.rule.pattern
        /\ SameDict(genOut.groups, genCall.rule.groups)
        /\ genOut.output_format = genCall.rule.output_format
        /\ SameDict(genOut.special_handling, genCall.rule.special_handling)
        /\ \A e \in ExtractedChoices :
              generate_output(genOut, ConfigDefault, e, <<".","m","k","v">>,
                              <<>>, None, TRUE)
                = generate_output(genCall.rule, ConfigDefault, e, <<".","m","k","v">>,
                                  <<>>, None, TRUE)


\* The number of results of the batch with a status.
ResultsWith(status) ==
    Cardinality({ k \in 1..Len(detailed_results) : detailed_results[k].status = status })

\* C20: at the end of a batch the success count is the number of results
\* with the success status, the failure count the number of results with
\* the failure status, the files left over by the two counts are the
\* skipped ones, and the three statuses cover every file of the batch.
C20_SummaryAgrees ==
    bpc = "done" =>
        /\ success_count = ResultsWith(StatusSuccess)
        /\ error_count = ResultsWith(StatusFailed)
        /\ Len(files_to_rename) - success_count - error_count
              = ResultsWith(StatusSkipped)
        /\ ResultsWith(StatusSuccess) + ResultsWith(StatusFailed)
              + ResultsWith(StatusSkipped) = Len(files_to_rename)


\* The name a file of the restore model had before any rename, by its
\* identity.
FirstName(k) == <<FileA, FileB, FileC>>[k]

\* The log is the history of the directory restore_all_from_log found: its
\* renames, done one after the other on files under their first names, made
\* that directory.
LogIsHistory ==
    \E d \in RestoreDirectoryChoices :
        /\ Replayable(d, rename_log, 1)
        /\ DOMAIN Replay(d, rename_log, 1) = DOMAIN found_directory
        /\ \A n \in DOMAIN found_directory : Replay(d, rename_log, 1)[n] = found_directory[n]

\* The directory the records from k on leave when os.rename never fails.
RECURSIVE RestoredFrom(_, _, _)
RestoredFrom(dir, entries, k) ==
    IF k > Len(entries) THEN dir
    ELSE RestoredFrom(restore_single_from_log(dir, entries[k], "").directory,
                      entries, k + 1)

\* C26: after the renames of the log, one restore_all_from_log in which
\* os.rename does not fail leaves every renamed file under its first name,
\* a file renamed twice included, when no other file had that name.
C26_RestoreRoundTrip ==
    (/\ rspc = "done"
     /\ LogIsHistory
     /\ DOMAIN directory = DOMAIN RestoredFrom(found_directory, successful_entries, 1)
     /\ \A n \in DOMAIN directory :
           directory[n] = RestoredFrom(found_directory, successful_entries, 1)[n]) =>
        \A n \in DOMAIN found_directory :
            (/\ FirstName(found_directory[n]) # n
             /\ FirstName(found_directory[n]) \notin DOMAIN found_directory) =>
                /\ FirstName(found_directory[n]) \in DOMAIN directory
                /\ directory[FirstName(found_directory[n])] = found_directory[n]


\* C27: a file that FileProcessingLogic.execute_rename reports as renamed
\* has the new name that preview_rename gave for it before the batch.
C27_PreviewAgrees ==
    (batchCall.which = "FileProcessingLogic" /\ preview_results.state = "returned") =>
        \A k \in 1..Len(detailed_results) :
            detailed_results[k].status = StatusSuccess =>
                \E j \in 1..Len(preview_results.results) :
                    /\ preview_results.results[j].filename
                          = detailed_results[k].original_name
                    /\ preview_results.results[j].new_filename
                          = detailed_results[k].new_name

\* the names a batch would give a file out of the format-error text
FormatErrorNames == { clean_filename(FormatError(key)) : key \in DOMAIN TextOf }

\* C28: no batch renames a file to the format-error text that generate_output
\* gives for a template naming a missing field: no result of a batch that
\* reports a rename has a sanitized format-error text as its new name, and
\* no file of the directory carries one.
C28_NeverRenamedToFormatError ==
    /\ \A k \in 1..Len(detailed_results) :
           detailed_results[k].status = StatusSuccess =>
               detailed_results[k].new_name \notin FormatErrorNames
    /\ \A name \in DOMAIN directory : name \notin FormatErrorNames

\* C29: every rule whose pattern finds the file name scores above 0,
\* whatever groups it declares; find_best_rule then returns a rule, and the
\* rule is among the suggestions when top_n leaves room for every rule.
C29_MatchingRuleScores ==
    \A i \in 1..Len(rules) :
        found[i] # None =>
            /\ ScoreOf(i) > 0
            /\ mpc = "found" => best.rule # 0
            /\ (mpc = "suggested" /\ Len(rules) <= topN) =>
                  \E k \in 1..Len(suggestions) : suggestions[k].rule = i

\* what match_filename_with_rule gives for a file of the batch under its
\* applied rule
AppliedMatch(fname) ==
    match_filename_with_rule(batchCall.applied_rules[fname], batchCall.cfg, fname,
                             batchCall.found[fname], batchCall.custom_title,
                             PathOf(fname), None)

\* Result k of the batch is for a file with an applied rule and is what that
\* rule gives: the rule's new name when the file was renamed or skipped, the
\* rule's new name or the file's own name when it failed.
AttemptedWithAppliedRule(k) ==
    LET fname == detailed_results[k].original_name
    IN  /\ fname \in DOMAIN batchCall.applied_rules
        /\ detailed_results[k].new_name \in {fname, AppliedMatch(fname).new_filename}
        /\ detailed_results[k].status \in {StatusSuccess, StatusSkipped} =>
               /\ AppliedMatch(fname).success
               /\ detailed_results[k].new_name = AppliedMatch(fname).new_filename

\* A step of FileProcessingLogic.execute_rename that leaves the directory
\* and the rename log as they are and ends in the raise.
RaisesAndRenamesNothing ==
    /\ bpc' = "raised"
    /\ directory' = directory
    /\ rename_log' = rename_log

\* C30: FileProcessingLogic.execute_rename raises and renames nothing when
\* the file list is empty or no rule is applied; inside its loop every
\* result and every log record is for a file with an applied rule and comes
\* from that rule, and a file without a rule stays as it is; once it has
\* returned applied_rules is empty, and a second execute_rename raises and
\* renames nothing; nothing runs after a raise.
C30_AppliedRuleLifecycle ==
    /\ [](batchCall.which = "FileProcessingLogic" =>
            /\ bpc = "loop" =>
                  /\ \A k \in 1..Len(detailed_results) : AttemptedWithAppliedRule(k)
                  /\ \A k \in 1..Len(rename_log) :
                        /\ rename_log[k].old_name \in DOMAIN batchCall.applied_rules
                        /\ rename_log[k].rule_name
                              = batchCall.applied_rules[rename_log[k].old_name].name
            /\ bpc = "done" => DOMAIN batchCall.applied_rules = {})
    /\ [][batchCall.which = "FileProcessingLogic" =>
            /\ (/\ bpc \in {"ready", "done"}
                /\ bpc' # bpc
                /\ \/ batchCall.file_list = <<>>
                   \/ DOMAIN batchCall.applied_rules = {}) => RaisesAndRenamesNothing
            /\ bpc = "done" => RaisesAndRenamesNothing
            /\ bpc = "loop" =>
                  \A f \in DOMAIN directory \ DOMAIN batchCall.applied_rules :
                      f \in DOMAIN directory' /\ directory'[f] = directory[f]
            /\ bpc # "raised"]_vars

\* C30's case: the first execute_rename renamed a file under its applied
\* rule and returned, and the second one has raised.
C30_Witness ==
    /\ batchCall.which = "FileProcessingLogic"
    /\ bpc = "raised"
    /\ batchCall.file_list # <<>>
    /\ DOMAIN batchCall.applied_rules = {}
    /\ \E k \in 1..Len(rename_log) : rename_log[k].status = StatusSuccess

=============================================================================
